---- MODULE Spec2Model ----
(***************************************************************************)
(* State-machine model of the eBIOS audit core (nuledger): the Merkle      *)
(* chain of merkle.py, the Ledger of ledger.py and the storage backends of *)
(* backends.py; and of the runtime monitor (nuguard): the rules of         *)
(* rules.py, the handlers of events.py and the Monitor of monitor.py.      *)
(*                                                                         *)
(* Hashes are modelled as terms in prefix notation, so SHA-256 is          *)
(* collision free by construction: every hash value is a sequence of       *)
(* strings, <<"E">> is SHA-256 of the empty byte string, <<"H">> \o l \o r *)
(* is SHA-256 of the concatenation of the child digests l and r, and       *)
(* <<"R", f1, ..., f8>> is SHA-256 of the canonical JSON of a record       *)
(* without its signature.  A leaf handed to the tree directly is a         *)
(* one-element sequence.                                                   *)
(***************************************************************************)
EXTENDS Integers, Sequences, FiniteSets, TLC

(***************************************************************************)
(* Bounds of the model.                                                    *)
(***************************************************************************)
MaxLeaves == 6
MaxAppends == 3
MaxConstructs == 2
MaxThreadAppends == 2
MaxCalls == 2
MaxPolicyRules == 2
MaxManagerCalls == 3

Threads == {"t1", "t2"}

(***************************************************************************)
(* Python's None, in the three shapes the model needs it.                  *)
(***************************************************************************)
None == "None"
NoHash == << >>
NoProof == [leaf_hash |-> NoHash, path |-> << >>, root |-> NoHash]

VARIABLES
    leaves,             \* MerkleTree.leaves
    root_cache,         \* MerkleTree._root (NoHash when not cached)
    proof,              \* the MerkleProof last returned by generate_proof
    entries,            \* the backend's stored records, in insertion order
    mem_index,          \* MemoryBackend.index: the key each record was inserted under
    backend_kind,       \* "memory" (MemoryBackend) or "sqlite" (SQLiteBackend)
    timestamp_counter,  \* Ledger._timestamp_counter
    uuid_counter,       \* number of uuid4() values issued so far
    returned,           \* records returned by append on the live instance, in call order
    constructs,         \* number of Ledger instances constructed over the backend
    max_at_construct,   \* largest stored timestamp when the live instance was constructed
    append_failed,      \* an append of the live instance raised
    tampered,           \* a stored record has been modified behind the ledger's back
    pc, t_tmp, t_entry, t_done,  \* per-thread position and locals of a concurrent append
    t_level,            \* per thread: current_level of a root() call in progress
    config,             \* Monitor.config: rules, handlers, auto_log, halt_on_critical
    ledger_attached,    \* Monitor.ledger is not None
    rules_given,        \* the rules argument the MonitorConfig was constructed with
    event_count,        \* Monitor.event_count
    violation_count,    \* Monitor.violation_count
    calls,              \* number of calls made on the monitor and its configuration
    fired_levels,       \* levels of the events fired or escalated since the last reset
    last_call,          \* arguments and outcome of the last check or escalate
    rule_call,          \* a rule checked on its own: the rule, the output, the result
    policy_call,        \* a policy compiled: the policy, the validate flag, the result
    policies,           \* the Policy objects created so far, by object number
    policy_files,       \* PolicyManager.policy_dir: the document stored under each name
    current_policy,     \* PolicyManager.current_policy (an object number, << >> for None)
    policy_history,     \* PolicyManager.policy_history (object numbers)
    manager_calls,      \* calls made on policies, the loader and the manager
    manager_call,       \* the last such call: operation, exception, object returned
    crypto_available,   \* policy.py CRYPTO_AVAILABLE
    core_call           \* an operation of the algebra: its arguments and its result

vars == <<leaves, root_cache, proof, entries, mem_index, backend_kind, timestamp_counter,
          uuid_counter, returned, constructs, max_at_construct, append_failed,
          tampered, pc, t_tmp, t_entry, t_done, t_level, config, ledger_attached, rules_given,
          event_count, violation_count, calls, fired_levels, last_call, rule_call,
          policy_call, policies, policy_files, current_policy, policy_history,
          manager_calls, manager_call, crypto_available, core_call>>

merkle_vars == <<leaves, root_cache, proof>>
ledger_vars == <<entries, mem_index, backend_kind, timestamp_counter, uuid_counter, returned,
                 constructs, max_at_construct, append_failed, tampered>>
thread_vars == <<pc, t_tmp, t_entry, t_done, t_level>>
guard_vars == <<config, ledger_attached, rules_given, event_count, violation_count, calls,
                fired_levels, last_call, rule_call, policy_call>>

manager_vars == <<policies, policy_files, current_policy, policy_history, manager_calls,
                  manager_call, crypto_available>>

(***************************************************************************)
(* hashlib.sha256 over the three kinds of preimage the code hashes.        *)
(***************************************************************************)
EmptyHash == <<"E">>

Sha256ConcatLeftOnly(left, right) == <<"H">> \o left

Sha256Concat(left, right) == <<"H">> \o left \o right

(***************************************************************************)
(* merkle.py: MerkleTree.root, bottom-up pairwise hashing.                 *)
(***************************************************************************)
OddRight(level, k) == level[2 * k - 1]

NextLevel(level) ==
    [k \in 1..((Len(level) + 1) \div 2) |->
        Sha256Concat(level[2 * k - 1],
                     IF 2 * k <= Len(level) THEN level[2 * k] ELSE OddRight(level, k))]

RECURSIVE BuildRoot(_)
BuildRoot(level) ==
    IF Len(level) > 1 THEN BuildRoot(NextLevel(level)) ELSE level[1]

ComputeRoot(lv) == IF lv = << >> THEN EmptyHash ELSE BuildRoot(lv)

\* the value root() returns in the current state: the cache when it is set
RootOf(cache, lv) == IF cache # NoHash THEN cache ELSE ComputeRoot(lv)

(***************************************************************************)
(* merkle.py: MerkleTree.generate_proof.  ProofLevelLoop is the inner      *)
(* `for i in range(0, len(current_level), 2)` loop with i 0-based, and     *)
(* current_index is updated inside the loop as in the code.                *)
(***************************************************************************)
SiblingOnRight(h) == [hash |-> h, direction |-> "right"]
SiblingOnLeftMisplaced(h) == [hash |-> h, direction |-> "right"]
SiblingOnLeft(h) == [hash |-> h, direction |-> "left"]

RECURSIVE ProofLevelLoop(_, _, _, _)
ProofLevelLoop(level, i, current_index, path) ==
    IF i >= Len(level)
    THEN [current_index |-> current_index, path |-> path]
    ELSE LET left == level[i + 1]
             right == IF i + 1 < Len(level) THEN level[i + 2] ELSE left
             newpath == IF i = current_index
                        THEN Append(path, SiblingOnRight(right))
                        ELSE IF i + 1 = current_index
                             THEN Append(path, SiblingOnLeft(left))
                             ELSE path
             newindex == IF i = current_index \/ i + 1 = current_index
                         THEN i \div 2
                         ELSE current_index
         IN ProofLevelLoop(level, i + 2, newindex, newpath)

RECURSIVE ProofLoop(_, _, _)
ProofLoop(level, current_index, path) ==
    IF Len(level) > 1
    THEN LET r == ProofLevelLoop(level, 0, current_index, path)
         IN ProofLoop(NextLevel(level), r.current_index, r.path)
    ELSE path

(***************************************************************************)
(* merkle.py: MerkleProof.verify, the fold along the path.                 *)
(***************************************************************************)
RECURSIVE FoldPath(_, _, _)
FoldPath(current, path, k) ==
    IF k > Len(path)
    THEN current
    ELSE LET combined == IF path[k].direction = "left"
                         THEN Sha256Concat(path[k].hash, current)
                         ELSE Sha256Concat(current, path[k].hash)
         IN FoldPath(combined, path, k + 1)

verify(p) == FoldPath(p.leaf_hash, p.path, 1) = p.root

(***************************************************************************)
(* merkle.py: MerkleTree.append / root / generate_proof on the tree alone. *)
(* Leaves are opaque strings chosen by the caller.                         *)
(***************************************************************************)
LeafValues == {<<"leaf1">>, <<"leaf2">>}

AppendLeaf(lv, leaf_hash) == Append(lv, leaf_hash)

MerkleTree_append_keeping_cache(leaf_hash) ==
    /\ Len(leaves) < MaxLeaves
    /\ leaves' = AppendLeaf(leaves, leaf_hash)
    /\ UNCHANGED <<root_cache, proof, ledger_vars, thread_vars, guard_vars,
                   manager_vars, core_call>>

MerkleTree_append(leaf_hash) ==
    /\ Len(leaves) < MaxLeaves
    /\ leaves' = AppendLeaf(leaves, leaf_hash)
    /\ root_cache' = NoHash
    /\ UNCHANGED <<proof, ledger_vars, thread_vars, guard_vars,
                   manager_vars, core_call>>

MerkleTree_root ==
    /\ root_cache' = RootOf(root_cache, leaves)
    /\ UNCHANGED <<leaves, proof, ledger_vars, thread_vars, guard_vars,
                   manager_vars, core_call>>

\* the MerkleProof generate_proof(index) returns for 0 <= index < len(leaves)
generate_proof(cache, lv, index) ==
    [leaf_hash |-> lv[index + 1],
     path |-> ProofLoop(lv, index, << >>),
     root |-> RootOf(cache, lv)]

\* an index outside [0, len) raises IndexError and changes nothing
MerkleTree_generate_proof(index) ==
    /\ index >= 0 /\ index < Len(leaves)
    /\ proof' = generate_proof(root_cache, leaves, index)
    /\ root_cache' = RootOf(root_cache, leaves)
    /\ UNCHANGED <<leaves, ledger_vars, thread_vars, guard_vars,
                   manager_vars, core_call>>

(***************************************************************************)
(* ledger.py: LedgerEntry and its hash.  The canonical JSON has its keys   *)
(* sorted and leaves the signature out.                                    *)
(***************************************************************************)
Payloads ==
    { [operation |-> "add", inputs |-> "[[10.0,0.5],[20.0,1.0]]",
       output |-> "[30.0,1.12]", coverage |-> "0.037", invariant_passed |-> TRUE] }

LedgerEntry(timestamp, op_id, parent_id, p, signature) ==
    [timestamp |-> timestamp, op_id |-> op_id, parent_id |-> parent_id,
     operation |-> p.operation, inputs |-> p.inputs, output |-> p.output,
     coverage |-> p.coverage, invariant_passed |-> p.invariant_passed,
     signature |-> signature]

HashedFields ==
    {"coverage", "inputs", "invariant_passed", "op_id", "operation", "output",
     "parent_id", "timestamp"}

Fields == HashedFields \cup {"signature"}

LedgerEntry_hash_without_coverage(e) ==
    <<"R", e.inputs, ToString(e.invariant_passed), e.op_id,
      e.operation, e.output, e.parent_id, ToString(e.timestamp)>>

LedgerEntry_hash(e) ==
    <<"R", e.coverage, e.inputs, ToString(e.invariant_passed), e.op_id,
      e.operation, e.output, e.parent_id, ToString(e.timestamp)>>

\* Ledger._sign: a signature is a function of the entry hash alone
Sign(data_hash) == <<"sig">> \o data_hash

\* uuid.uuid4(): the k-th identifier issued, never issued twice
Uuid4(k) == "uuid" \o ToString(k)

(***************************************************************************)
(* backends.py: get_all, get and append of MemoryBackend and               *)
(* SQLiteBackend.                                                          *)
(***************************************************************************)
\* ORDER BY timestamp ASC; rows of equal timestamp stay in insertion order.
\* RowRank(es, i) is the place of row i in the result
RowRank(es, i) ==
    1 + Cardinality({j \in 1..Len(es) :
                        \/ es[j].timestamp < es[i].timestamp
                        \/ (es[j].timestamp = es[i].timestamp /\ j < i)})

OrderByTimestamp(es) ==
    [k \in 1..Len(es) |-> es[CHOOSE i \in 1..Len(es) : RowRank(es, i) = k]]

get_all(kind, es) == IF kind = "sqlite" THEN OrderByTimestamp(es) ELSE es

StoredIds(es) == {es[i].op_id : i \in 1..Len(es)}

\* Backend.get: <<record>> for the record found, << >> for None.  MemoryBackend
\* looks the key up in its dict, SQLiteBackend selects on the op_id column
get(kind, es, idx, op_id) ==
    IF kind = "sqlite"
    THEN IF op_id \in StoredIds(es)
         THEN <<es[CHOOSE i \in 1..Len(es) : es[i].op_id = op_id]>>
         ELSE << >>
    ELSE IF \E i \in 1..Len(idx) : idx[i] = op_id
         THEN <<es[CHOOSE i \in 1..Len(idx) : idx[i] = op_id]>>
         ELSE << >>

\* Backend.append raises: the INSERT of SQLiteBackend can fail (a NaN coverage
\* is stored as NULL, which the NOT NULL column refuses; the disk is full; the
\* database is locked); the list append of MemoryBackend does not
BackendRaises(kind, insert_raises) ==
    kind = "sqlite" /\ insert_raises

(***************************************************************************)
(* ledger.py: Ledger.verify_integrity.                                     *)
(***************************************************************************)
TimestampsUnchecked(es, k, last_timestamp) == TRUE

RECURSIVE TimestampsMonotonic(_, _, _)
TimestampsMonotonic(es, k, last_timestamp) ==
    IF k > Len(es) THEN TRUE
    ELSE IF es[k].timestamp <= last_timestamp THEN FALSE
         ELSE TimestampsMonotonic(es, k + 1, es[k].timestamp)

EntryHashes(es) == [k \in 1..Len(es) |-> LedgerEntry_hash(es[k])]

RootsAgreeUnchecked(computed_root, merkle_root) == computed_root = computed_root

RootsAgree(computed_root, merkle_root) == computed_root = merkle_root

\* the root verify_integrity recomputes from the stored records
RecomputedRoot(kind, stored) == ComputeRoot(EntryHashes(get_all(kind, stored)))

\* verify_integrity() over a backend holding `stored` and a tree (cache, lv)
VerifyIntegrity(kind, stored, cache, lv) ==
    LET es == get_all(kind, stored)
    IN IF ~TimestampsMonotonic(es, 1, -1)
       THEN FALSE
       ELSE RootsAgree(RecomputedRoot(kind, stored), RootOf(cache, lv))

verify_integrity == VerifyIntegrity(backend_kind, entries, root_cache, leaves)

\* the call: self.merkle.root() is reached, and caches, only past the timestamp check
Ledger_verify_integrity ==
    /\ root_cache' = IF TimestampsMonotonic(get_all(backend_kind, entries), 1, -1)
                     THEN RootOf(root_cache, leaves)
                     ELSE root_cache
    /\ UNCHANGED <<leaves, proof, entries, mem_index, backend_kind, timestamp_counter,
                   uuid_counter, returned, constructs, max_at_construct,
                   append_failed, tampered, thread_vars, guard_vars,
                   manager_vars, core_call>>

(***************************************************************************)
(* ledger.py: Ledger.__init__ over the backend as it stands, and           *)
(* Ledger.append.                                                          *)
(***************************************************************************)
MaxTimestamp(es) ==
    IF es = << >> THEN 0
    ELSE CHOOSE m \in {es[i].timestamp : i \in 1..Len(es)} :
            \A i \in 1..Len(es) : es[i].timestamp <= m

InitialCounter(es) == 0

Ledger_init ==
    /\ constructs < MaxConstructs
    /\ constructs' = constructs + 1
    /\ leaves' = EntryHashes(get_all(backend_kind, entries))
    /\ root_cache' = NoHash
    /\ timestamp_counter' = InitialCounter(get_all(backend_kind, entries))
    /\ returned' = << >>
    /\ append_failed' = FALSE
    /\ max_at_construct' = MaxTimestamp(entries)
    /\ UNCHANGED <<proof, entries, mem_index, backend_kind, uuid_counter, tampered,
                   thread_vars, guard_vars,
                   manager_vars, core_call>>

NextTimestampStuck(counter) == counter

NextTimestamp(counter) == counter + 1

ParentChoices == {None, "never-issued"} \cup StoredIds(entries)

Ledger_append_own_parent(p, parent_id, insert_raises) ==
    /\ uuid_counter < MaxAppends
    /\ LET op_id == Uuid4(uuid_counter + 1)
           timestamp == NextTimestamp(timestamp_counter)
           entry_hash == LedgerEntry_hash(LedgerEntry(timestamp, op_id, op_id, p, << >>))
           entry == LedgerEntry(timestamp, op_id, op_id, p, Sign(entry_hash))
       IN /\ uuid_counter' = uuid_counter + 1
          /\ timestamp_counter' = timestamp
          /\ leaves' = AppendLeaf(leaves, entry_hash)
          /\ root_cache' = NoHash
          /\ IF BackendRaises(backend_kind, insert_raises)
             THEN /\ append_failed' = TRUE
                  /\ UNCHANGED <<entries, mem_index, returned>>
             ELSE /\ entries' = Append(entries, entry)
                  /\ mem_index' = Append(mem_index, entry.op_id)
                  /\ returned' = Append(returned, entry)
                  /\ UNCHANGED append_failed
    /\ UNCHANGED <<proof, backend_kind, constructs, max_at_construct, tampered, thread_vars, guard_vars,
                   manager_vars, core_call>>

Ledger_append(p, parent_id, insert_raises) ==
    /\ uuid_counter < MaxAppends
    /\ LET op_id == Uuid4(uuid_counter + 1)
           timestamp == NextTimestamp(timestamp_counter)
           entry_hash == LedgerEntry_hash(LedgerEntry(timestamp, op_id, parent_id, p, << >>))
           entry == LedgerEntry(timestamp, op_id, parent_id, p, Sign(entry_hash))
       IN /\ uuid_counter' = uuid_counter + 1
          /\ timestamp_counter' = timestamp
          /\ leaves' = AppendLeaf(leaves, entry_hash)
          /\ root_cache' = NoHash
          /\ IF BackendRaises(backend_kind, insert_raises)
             THEN /\ append_failed' = TRUE
                  /\ UNCHANGED <<entries, mem_index, returned>>
             ELSE /\ entries' = Append(entries, entry)
                  /\ mem_index' = Append(mem_index, entry.op_id)
                  /\ returned' = Append(returned, entry)
                  /\ UNCHANGED append_failed
    /\ UNCHANGED <<proof, backend_kind, constructs, max_at_construct, tampered, thread_vars, guard_vars,
                   manager_vars, core_call>>

(***************************************************************************)
(* ledger.py: Ledger.trace.  The walk stops at None, at an op_id that is   *)
(* not stored, and (in the model only) after `fuel` records, which a walk  *)
(* over acyclic parent links never uses up.                                *)
(***************************************************************************)
Reverse(s) == [k \in 1..Len(s) |-> s[Len(s) + 1 - k]]

ChainOrderAsWalked(chain) == chain

ChainOrder(chain) == Reverse(chain)

RECURSIVE TraceWalk(_, _, _)
TraceWalk(current_id, chain, fuel) ==
    IF current_id = None \/ fuel = 0 THEN chain
    ELSE LET entry == get(backend_kind, entries, mem_index, current_id)
         IN IF entry = << >> THEN chain
            ELSE TraceWalk(entry[1].parent_id, Append(chain, entry[1]), fuel - 1)

trace(op_id) == ChainOrder(TraceWalk(op_id, << >>, Len(entries) + 1))

(***************************************************************************)
(* Direct modification of one field of one stored record, behind the       *)
(* ledger's back (test_merkle_tamper_detection).  The model follows one    *)
(* such modification per run.                                              *)
(***************************************************************************)
FieldValues(f) ==
    CASE f = "timestamp" -> 1..MaxAppends
      [] f = "op_id" -> {"forged-id"}
      [] f = "parent_id" -> {None, Uuid4(1)}
      [] f = "operation" -> {"add", "multiply"}
      [] f = "inputs" -> {"[[10.0,0.5],[20.0,1.0]]", "[[2.0,0.2]]"}
      [] f = "output" -> {"[30.0,1.12]", "[2.0,0.2]"}
      [] f = "coverage" -> {"0.037", "999.0"}
      [] f = "invariant_passed" -> {TRUE, FALSE}
      [] f = "signature" -> {<<"forged-signature">>}

Tamper(i, f, v) ==
    /\ ~tampered
    /\ i \in 1..Len(entries)
    /\ v # entries[i][f]
    /\ entries' = [entries EXCEPT ![i][f] = v]
    /\ tampered' = TRUE
    /\ UNCHANGED <<merkle_vars, mem_index, backend_kind, timestamp_counter, uuid_counter,
                   returned, constructs, max_at_construct, append_failed,
                   thread_vars, guard_vars,
                   manager_vars, core_call>>

(***************************************************************************)
(* Direct alteration of the stored sequence behind the ledger's back: a    *)
(* record deleted, a copy of a stored record inserted, or the records      *)
(* reordered (MemoryBackend.entries is a list; the rows of the SQLite      *)
(* table come back ORDER BY timestamp, so a reordering of rows counts only *)
(* when it changes what get_all returns).                                  *)
(***************************************************************************)
RemoveAt(es, i) == [k \in 1..(Len(es) - 1) |-> IF k < i THEN es[k] ELSE es[k + 1]]

InsertAt(es, j, e) ==
    [k \in 1..(Len(es) + 1) |-> IF k < j THEN es[k] ELSE IF k = j THEN e ELSE es[k - 1]]

Reorderings(n) == {f \in [1..n -> 1..n] : \A a, b \in 1..n : f[a] = f[b] => a = b}

Permuted(es, f) == [k \in 1..Len(es) |-> es[f[k]]]

Tamper_remove(i) ==
    /\ ~tampered
    /\ i \in 1..Len(entries)
    /\ entries' = RemoveAt(entries, i)
    /\ tampered' = TRUE
    /\ UNCHANGED <<merkle_vars, mem_index, backend_kind, timestamp_counter, uuid_counter,
                   returned, constructs, max_at_construct, append_failed,
                   thread_vars, guard_vars,
                   manager_vars, core_call>>

Tamper_duplicate(i, j) ==
    /\ ~tampered
    /\ i \in 1..Len(entries)
    /\ j \in 1..(Len(entries) + 1)
    /\ entries' = InsertAt(entries, j, entries[i])
    /\ tampered' = TRUE
    /\ UNCHANGED <<merkle_vars, mem_index, backend_kind, timestamp_counter, uuid_counter,
                   returned, constructs, max_at_construct, append_failed,
                   thread_vars, guard_vars,
                   manager_vars, core_call>>

Tamper_permute(f) ==
    /\ ~tampered
    /\ get_all(backend_kind, Permuted(entries, f)) # get_all(backend_kind, entries)
    /\ entries' = Permuted(entries, f)
    /\ tampered' = TRUE
    /\ UNCHANGED <<merkle_vars, mem_index, backend_kind, timestamp_counter, uuid_counter,
                   returned, constructs, max_at_construct, append_failed,
                   thread_vars, guard_vars,
                   manager_vars, core_call>>

(***************************************************************************)
(* Ledger.append called from several threads of one process on one ledger. *)
(* The code takes no lock, so a thread switch can fall between any two of  *)
(* its steps: `self._timestamp_counter += 1` is a load and a store, and    *)
(* `timestamp = self._timestamp_counter` is a second load.                 *)
(***************************************************************************)
ThreadPayload == CHOOSE p \in Payloads : p.operation = "add"

NoEntry == LedgerEntry(0, None, None, ThreadPayload, << >>)

T_call(t) ==
    /\ pc[t] = "idle"
    /\ t_done[t] < MaxThreadAppends
    /\ uuid_counter' = uuid_counter + 1
    /\ t_entry' = [t_entry EXCEPT ![t] =
                      LedgerEntry(0, Uuid4(uuid_counter + 1), None, ThreadPayload, << >>)]
    /\ pc' = [pc EXCEPT ![t] = "load_counter"]
    /\ UNCHANGED <<merkle_vars, entries, mem_index, backend_kind, timestamp_counter, returned,
                   constructs, max_at_construct, append_failed, tampered,
                   t_tmp, t_done, t_level, guard_vars,
                   manager_vars, core_call>>

T_load_counter(t) ==
    /\ pc[t] = "load_counter"
    /\ t_tmp' = [t_tmp EXCEPT ![t] = timestamp_counter]
    /\ pc' = [pc EXCEPT ![t] = "store_counter"]
    /\ UNCHANGED <<merkle_vars, ledger_vars, t_entry, t_done, t_level, guard_vars,
                   manager_vars, core_call>>

T_store_counter(t) ==
    /\ pc[t] = "store_counter"
    /\ timestamp_counter' = NextTimestamp(t_tmp[t])
    /\ pc' = [pc EXCEPT ![t] = "read_timestamp"]
    /\ UNCHANGED <<merkle_vars, entries, mem_index, backend_kind, uuid_counter, returned,
                   constructs, max_at_construct, append_failed, tampered,
                   t_tmp, t_entry, t_done, t_level, guard_vars,
                   manager_vars, core_call>>

T_read_timestamp(t) ==
    /\ pc[t] = "read_timestamp"
    /\ LET e == [t_entry[t] EXCEPT !.timestamp = timestamp_counter]
       IN t_entry' = [t_entry EXCEPT ![t] =
                         [e EXCEPT !.signature = Sign(LedgerEntry_hash(e))]]
    /\ pc' = [pc EXCEPT ![t] = "merkle_append"]
    /\ UNCHANGED <<merkle_vars, ledger_vars, t_tmp, t_done, t_level, guard_vars,
                   manager_vars, core_call>>

\* MerkleTree.append: self.leaves.append(leaf_hash)
T_merkle_append(t) ==
    /\ pc[t] = "merkle_append"
    /\ leaves' = AppendLeaf(leaves, LedgerEntry_hash(t_entry[t]))
    /\ pc' = [pc EXCEPT ![t] = "merkle_invalidate"]
    /\ UNCHANGED <<root_cache, proof, ledger_vars, t_tmp, t_entry, t_done, t_level,
                   guard_vars, manager_vars, core_call>>

\* MerkleTree.append: self._root = None
T_merkle_invalidate(t) ==
    /\ pc[t] = "merkle_invalidate"
    /\ root_cache' = NoHash
    /\ pc' = [pc EXCEPT ![t] = "backend_append"]
    /\ UNCHANGED <<leaves, proof, ledger_vars, t_tmp, t_entry, t_done, t_level,
                   guard_vars, manager_vars, core_call>>

T_backend_append(t) ==
    /\ pc[t] = "backend_append"
    /\ entries' = Append(entries, t_entry[t])
    /\ mem_index' = Append(mem_index, t_entry[t].op_id)
    /\ returned' = Append(returned, t_entry[t])
    /\ pc' = [pc EXCEPT ![t] = "idle"]
    /\ t_done' = [t_done EXCEPT ![t] = t_done[t] + 1]
    /\ UNCHANGED <<merkle_vars, backend_kind, timestamp_counter, uuid_counter,
                   constructs, max_at_construct, append_failed, tampered,
                   t_tmp, t_entry, t_level, guard_vars,
                   manager_vars, core_call>>

\* Ledger.get_root, that is MerkleTree.root, called by a thread that is not
\* appending: a cached root is returned as it is; otherwise the thread copies
\* the leaves (current_level = self.leaves[:]) and builds the tree over its copy
T_root_call(t) ==
    /\ pc[t] = "idle"
    /\ root_cache = NoHash
    /\ t_level' = [t_level EXCEPT ![t] = leaves]
    /\ pc' = [pc EXCEPT ![t] = "root_store"]
    /\ UNCHANGED <<merkle_vars, ledger_vars, t_tmp, t_entry, t_done, guard_vars,
                   manager_vars, core_call>>

\* MerkleTree.root: self._root = current_level[0] (the hash of b'' for no leaves)
T_root_store(t) ==
    /\ pc[t] = "root_store"
    /\ root_cache' = ComputeRoot(t_level[t])
    /\ t_level' = [t_level EXCEPT ![t] = << >>]
    /\ pc' = [pc EXCEPT ![t] = "idle"]
    /\ UNCHANGED <<leaves, proof, ledger_vars, t_tmp, t_entry, t_done, guard_vars,
                   manager_vars, core_call>>

(***************************************************************************)
(* Python floats, as far as the rules compute with them: a finite value in *)
(* thousandths, or one of NaN, +inf, -inf.  Comparisons follow IEEE 754:   *)
(* every ordered comparison with NaN is false and NaN != NaN is true.      *)
(***************************************************************************)
Fin(v) == [k |-> "fin", v |-> v]
NaN == [k |-> "nan", v |-> 0]
PosInf == [k |-> "inf", v |-> 0]
NegInf == [k |-> "ninf", v |-> 0]

FloatLt(a, b) ==
    /\ a.k # "nan" /\ b.k # "nan"
    /\ a.k # "inf" /\ b.k # "ninf"
    /\ (a.k = "ninf" \/ b.k = "inf" \/ a.v < b.v)

FloatGt(a, b) == FloatLt(b, a)

FloatEq(a, b) == a.k # "nan" /\ b.k # "nan" /\ a = b

FloatNe(a, b) == ~FloatEq(a, b)

FloatAbs(a) ==
    CASE a.k = "nan" -> NaN
      [] a.k = "fin" -> Fin(IF a.v < 0 THEN 0 - a.v ELSE a.v)
      [] OTHER -> PosInf

\* a / b for a divisor b > 0 (the code divides by abs(n_out) with n_out != 0);
\* the finite values of the model divide without remainder
FloatDiv(a, b) ==
    CASE a.k = "nan" \/ b.k = "nan" -> NaN
      [] b.k = "inf" -> IF a.k = "fin" THEN Fin(0) ELSE NaN
      [] a.k = "fin" -> Fin((a.v * 1000) \div b.v)
      [] OTHER -> a

\* json.dumps of a float
FloatRepr(a) ==
    CASE a.k = "fin" -> ToString(a.v) \o "e-3"
      [] a.k = "nan" -> "NaN"
      [] a.k = "inf" -> "Infinity"
      [] OTHER -> "-Infinity"

\* an N/U pair (n, u) and its JSON text
Pair(n, u) == [n |-> n, u |-> u]

PairRepr(o) == "[" \o FloatRepr(o.n) \o "," \o FloatRepr(o.u) \o "]"

(***************************************************************************)
(* events.py: EventLevel and Event.  The data map is modelled by the keys  *)
(* the rules write and the monitor reads; a key that is absent is << >>,   *)
(* a key that is present is a one-element sequence.  An absent event       *)
(* (None) is << >> and an event e is <<e>>.                                *)
(***************************************************************************)
INFO == "info"
WARNING == "warning"
ERROR == "error"
CRITICAL == "critical"

EventLevels == <<INFO, WARNING, ERROR, CRITICAL>>

\* EventLevel.__lt__: the position in [INFO, WARNING, ERROR, CRITICAL]
LevelIndex(level) == CHOOSE i \in 1..Len(EventLevels) : EventLevels[i] = level

NoData ==
    [violation |-> << >>, coverage |-> << >>, inputs |-> << >>, output |-> << >>,
     violations |-> << >>]

Event(level, operation, data) ==
    [level |-> level, operation |-> operation, data |-> data, op_id |-> None]

(***************************************************************************)
(* rules.py: the rule variants and their check functions.  A rule is a     *)
(* record of its constructor arguments.                                    *)
(***************************************************************************)
InvariantRule ==
    [type |-> "InvariantRule", threshold |-> Fin(0), level |-> CRITICAL,
     mode |-> "", rules |-> << >>]

CoverageRule(threshold, level) ==
    [type |-> "CoverageRule", threshold |-> threshold, level |-> level,
     mode |-> "", rules |-> << >>]

ThresholdRule(max_uncertainty, level) ==
    [type |-> "ThresholdRule", threshold |-> max_uncertainty, level |-> level,
     mode |-> "", rules |-> << >>]

CompositeRule(rules, mode) ==
    [type |-> "CompositeRule", threshold |-> Fin(0), level |-> INFO,
     mode |-> mode, rules |-> rules]

\* CustomRule("LargeValueRule", check_fn) with the check_fn of the class docstring
CustomRule ==
    [type |-> "CustomRule", threshold |-> Fin(1000000), level |-> INFO,
     mode |-> "", rules |-> << >>]

Coverage(output) ==
    IF FloatEq(output.n, Fin(0))
    THEN IF FloatGt(output.u, Fin(0)) THEN PosInf ELSE Fin(0)
    ELSE FloatDiv(output.u, FloatAbs(output.n))

CoverageRule_check(rule, operation, inputs, output) ==
    IF FloatGt(Coverage(output), rule.threshold)
    THEN <<Event(rule.level, operation,
                 [NoData EXCEPT !.coverage = <<Coverage(output)>>,
                                !.inputs = <<inputs>>, !.output = <<output>>])>>
    ELSE << >>

InvariantEvent(violation, operation, inputs, output) ==
    Event(CRITICAL, operation,
          [NoData EXCEPT !.violation = <<violation>>,
                         !.inputs = <<inputs>>, !.output = <<output>>])

InfiniteNominalUnchecked(n_out) == FALSE

InfiniteNominal(n_out) == FloatEq(FloatAbs(n_out), PosInf)

InvariantRule_check(rule, operation, inputs, output) ==
    IF FloatLt(output.u, Fin(0))
    THEN <<InvariantEvent("negative_uncertainty", operation, inputs, output)>>
    ELSE IF FloatNe(output.n, output.n) \/ FloatNe(output.u, output.u)
         THEN <<InvariantEvent("nan", operation, inputs, output)>>
         ELSE IF InfiniteNominal(output.n)
              THEN <<InvariantEvent("infinite_nominal", operation, inputs, output)>>
              ELSE << >>

ThresholdRule_check(rule, operation, inputs, output) ==
    IF FloatGt(output.u, rule.threshold)
    THEN <<Event(rule.level, operation,
                 [NoData EXCEPT !.inputs = <<inputs>>, !.output = <<output>>])>>
    ELSE << >>

\* the docstring's check_fn: an INFO event with no data when n > 1000
CustomRule_check(rule, operation, inputs, output) ==
    IF FloatGt(output.n, rule.threshold)
    THEN <<Event(INFO, operation, NoData)>>
    ELSE << >>

FirstLevel(events) == events[1].level

\* max(e.level for e in events)
MaxLevel(events) ==
    CHOOSE l \in {events[k].level : k \in 1..Len(events)} :
        \A k \in 1..Len(events) : LevelIndex(events[k].level) <= LevelIndex(l)

\* the events of a list of check results, in order
Emitted(results) ==
    LET some == SelectSeq(results, LAMBDA r : r # << >>)
    IN [k \in 1..Len(some) |-> some[k][1]]

RECURSIVE Rule_check(_, _, _, _)
CompositeRule_check(rule, operation, inputs, output) ==
    LET events == Emitted([k \in 1..Len(rule.rules) |->
                              Rule_check(rule.rules[k], operation, inputs, output)])
    IN IF rule.mode = "or" /\ events # << >>
       THEN <<events[1]>>
       ELSE IF rule.mode = "and" /\ Len(events) = Len(rule.rules) /\ events # << >>
            THEN <<Event(MaxLevel(events), operation,
                         [NoData EXCEPT !.violations = events])>>
            ELSE << >>

\* rule.check raises: in 'and' mode with as many events as children and no
\* event at all, max() is called on an empty sequence and raises ValueError;
\* an exception of a child's check leaves the composite's check too
RECURSIVE Rule_check_raises(_, _, _, _)
Rule_check_raises(rule, operation, inputs, output) ==
    /\ rule.type = "CompositeRule"
    /\ \/ \E k \in 1..Len(rule.rules) :
              Rule_check_raises(rule.rules[k], operation, inputs, output)
       \/ /\ rule.mode = "and"
          /\ Len(rule.rules) = 0

\* rule.check(operation, inputs, output), dispatched on the rule's class
Rule_check(rule, operation, inputs, output) ==
    CASE rule.type = "InvariantRule" -> InvariantRule_check(rule, operation, inputs, output)
      [] rule.type = "CoverageRule" -> CoverageRule_check(rule, operation, inputs, output)
      [] rule.type = "ThresholdRule" -> ThresholdRule_check(rule, operation, inputs, output)
      [] rule.type = "CompositeRule" -> CompositeRule_check(rule, operation, inputs, output)
      [] OTHER -> CustomRule_check(rule, operation, inputs, output)

(***************************************************************************)
(* events.py: the event handlers.  A handler is a record of its class;     *)
(* LedgerHandler holds the ledger of the model, and ConditionalHandler     *)
(* wraps a LogHandler with the condition                                   *)
(* `lambda e: e.data['coverage'] > 0.5`, which raises KeyError on an event *)
(* whose data has no coverage.                                             *)
(***************************************************************************)
LogHandler == [type |-> "LogHandler"]
LedgerHandler == [type |-> "LedgerHandler"]
HaltHandler == [type |-> "HaltHandler"]
ConditionalHandler == [type |-> "ConditionalHandler"]

\* handler.should_handle(event): "yes", "no", or "raise" when the predicate raises
should_handle(handler, event) ==
    CASE handler.type = "HaltHandler" ->
            IF event.level = CRITICAL THEN "yes" ELSE "no"
      [] handler.type = "ConditionalHandler" ->
            IF event.data.coverage = << >> THEN "raise"
            ELSE IF FloatGt(event.data.coverage[1], Fin(500)) THEN "yes" ELSE "no"
      [] OTHER -> "yes"

(***************************************************************************)
(* ledger.py: Ledger.append as a function of the ledger's state, for the   *)
(* callers that append in the middle of a larger operation.                *)
(***************************************************************************)
TheLedger ==
    [leaves |-> leaves, root_cache |-> root_cache, entries |-> entries,
     mem_index |-> mem_index, timestamp_counter |-> timestamp_counter,
     uuid_counter |-> uuid_counter, returned |-> returned,
     append_failed |-> append_failed]

\* the ledger after append(p, parent_id) and the entry returned (<< >> when the
\* backend raised)
Ledger_appended(ledger, kind, p, parent_id, insert_raises) ==
    LET op_id == Uuid4(ledger.uuid_counter + 1)
        timestamp == NextTimestamp(ledger.timestamp_counter)
        entry_hash == LedgerEntry_hash(LedgerEntry(timestamp, op_id, parent_id, p, << >>))
        entry == LedgerEntry(timestamp, op_id, parent_id, p, Sign(entry_hash))
        chained == [ledger EXCEPT !.uuid_counter = @ + 1,
                                  !.timestamp_counter = timestamp,
                                  !.leaves = AppendLeaf(@, entry_hash),
                                  !.root_cache = NoHash]
    IN IF BackendRaises(kind, insert_raises)
       THEN [ledger |-> [chained EXCEPT !.append_failed = TRUE], entry |-> << >>]
       ELSE [ledger |-> [chained EXCEPT !.entries = Append(@, entry),
                                        !.mem_index = Append(@, op_id),
                                        !.returned = Append(@, entry)],
             entry |-> <<entry>>]

(***************************************************************************)
(* monitor.py: Monitor._log_to_ledger and LedgerHandler.handle build the   *)
(* same record from the event.                                             *)
(***************************************************************************)
EventCoverage(event) ==
    IF event.data.coverage = << >> THEN PosInf ELSE event.data.coverage[1]

GuardOperation(event) == "guard_" \o event.operation

GuardPayload(event) ==
    [operation |-> GuardOperation(event),
     inputs |-> IF event.data.inputs = << >> THEN "[]" ELSE event.data.inputs[1],
     output |-> PairRepr(IF event.data.output = << >>
                         THEN Pair(Fin(0), PosInf)
                         ELSE event.data.output[1]),
     coverage |-> FloatRepr(EventCoverage(event)),
     invariant_passed |-> event.level # CRITICAL]

\* the state of one dispatch: the ledger, the event as annotated so far, the
\* handlers whose handle was called (with the event as they received it), the
\* exception leaving the dispatch, and the op_id of the auto-logged record
Dispatch(ledger, event) ==
    [ledger |-> ledger, event |-> event, invoked |-> << >>, raised |-> "none",
     logged |-> << >>]

Invocation(k, event, failed) == [handler |-> k, event |-> event, failed |-> failed]

\* the SQLite INSERT refuses a NaN coverage
InsertRaises(event) == EventCoverage(event).k = "nan"

Monitor_log_to_ledger(d) ==
    LET r == Ledger_appended(d.ledger, backend_kind, GuardPayload(d.event), None,
                             InsertRaises(d.event))
    IN IF r.entry = << >>
       THEN [d EXCEPT !.ledger = r.ledger, !.raised = "ledger"]
       ELSE [d EXCEPT !.ledger = r.ledger,
                      !.event.op_id = r.entry[1].op_id,
                      !.logged = <<r.entry[1].op_id>>]

\* handler.handle(event) inside the monitor's try/except, for handler number k
handle(handler, k, d) ==
    CASE handler.type = "LedgerHandler" ->
            LET r == Ledger_appended(d.ledger, backend_kind, GuardPayload(d.event), None,
                                     InsertRaises(d.event))
            IN IF r.entry = << >>
               THEN [d EXCEPT !.ledger = r.ledger,
                              !.invoked = Append(@, Invocation(k, d.event, TRUE))]
               ELSE [d EXCEPT !.ledger = r.ledger,
                              !.event.op_id = r.entry[1].op_id,
                              !.invoked = Append(@, Invocation(k, d.event, FALSE))]
      [] handler.type = "HaltHandler" ->
            [d EXCEPT !.invoked = Append(@, Invocation(k, d.event, TRUE))]
      [] OTHER ->
            [d EXCEPT !.invoked = Append(@, Invocation(k, d.event, FALSE))]

\* `for handler in self.config.handlers`, from handler number k on
RECURSIVE RunHandlers(_, _, _)
RunHandlers(handlers, k, d) ==
    IF k > Len(handlers)
    THEN d
    ELSE LET answer == should_handle(handlers[k], d.event)
         IN IF answer = "raise"
            THEN [d EXCEPT !.raised = "should_handle"]
            ELSE IF answer = "no"
                 THEN RunHandlers(handlers, k + 1, d)
                 ELSE RunHandlers(handlers, k + 1, handle(handlers[k], k, d))

HaltsAlways(halt_on_critical, event) == halt_on_critical

Halts(halt_on_critical, event) == halt_on_critical /\ event.level = CRITICAL

\* Monitor._handle_event under the configuration cfg
Monitor_handle_event(cfg, attached, ledger, event) ==
    LET d0 == Dispatch(ledger, event)
        d1 == IF cfg.auto_log /\ attached THEN Monitor_log_to_ledger(d0) ELSE d0
        d2 == IF d1.raised # "none" THEN d1 ELSE RunHandlers(cfg.handlers, 1, d1)
    IN IF d2.raised = "none" /\ Halts(cfg.halt_on_critical, d2.event)
       THEN [d2 EXCEPT !.raised = "halt"]
       ELSE d2

(***************************************************************************)
(* monitor.py: MonitorConfig and Monitor.                                  *)
(***************************************************************************)
DefaultRules == <<InvariantRule, CoverageRule(Fin(100), WARNING)>>

KeepsEmptyRules(rules) == rules

MonitorConfig_post_init(rules) == IF Len(rules) = 0 THEN DefaultRules ELSE rules

MonitorConfig(rules, handlers, auto_log, halt_on_critical) ==
    [rules |-> MonitorConfig_post_init(rules), handlers |-> handlers,
     auto_log |-> auto_log, halt_on_critical |-> halt_on_critical]

\* the arguments of the calls the model makes
CheckOperation == "add"
CheckInputs == "[[10.0,0.5],[20.0,1.0]]"

CheckOutputs ==
    { Pair(Fin(100000), Fin(5000)),      \* (100.0, 5.0): coverage 0.05
      Pair(Fin(100000), Fin(15000)),     \* (100.0, 15.0): coverage 0.15
      Pair(Fin(100000), Fin(-1000)),     \* (100.0, -1.0): negative uncertainty
      Pair(Fin(2000000), Fin(6000)) }    \* (2000.0, 6.0): coverage 0.003

BothFire == <<CoverageRule(Fin(100), WARNING), ThresholdRule(Fin(10000), ERROR)>>

RuleLists ==
    { << >>,
      BothFire,
      <<InvariantRule>>,
      <<CompositeRule(BothFire, "and")>>,
      <<CustomRule, CoverageRule(Fin(1), ERROR)>>,
      <<CompositeRule(BothFire, "or"), InvariantRule>> }

HandlerLists ==
    { << >>,
      <<LogHandler>>,
      <<LedgerHandler>>,
      <<HaltHandler, LogHandler>>,
      <<ConditionalHandler, LogHandler>> }

AddableRules == {InvariantRule, CoverageRule(Fin(50), WARNING)}

AddableHandlers == {LogHandler, LedgerHandler}

EscalatedEvents ==
    { Event(ERROR, "external", NoData),
      Event(CRITICAL, "external",
            [NoData EXCEPT !.coverage = <<Fin(900)>>, !.inputs = <<CheckInputs>>,
                           !.output = <<Pair(Fin(100000), Fin(90000))>>]),
      \* the event CoverageRule(0.1, WARNING) returns for the output (100.0, 15.0)
      Event(WARNING, CheckOperation,
            [NoData EXCEPT !.coverage = <<Fin(150)>>, !.inputs = <<CheckInputs>>,
                           !.output = <<Pair(Fin(100000), Fin(15000))>>]) }

\* what the last call of check or escalate was given and did
NoCall ==
    [call |-> "none", output |-> << >>, event |-> << >>, raised |-> "none",
     invoked |-> << >>, logged |-> << >>, result |-> << >>]

Called(call, output, d) ==
    [call |-> call, output |-> output, event |-> <<d.event>>, raised |-> d.raised,
     invoked |-> d.invoked, logged |-> d.logged, result |-> << >>]

\* the ledger's variables take the values of the ledger state `ledger`
LedgerBecomes(ledger) ==
    /\ leaves' = ledger.leaves
    /\ root_cache' = ledger.root_cache
    /\ entries' = ledger.entries
    /\ mem_index' = ledger.mem_index
    /\ timestamp_counter' = ledger.timestamp_counter
    /\ uuid_counter' = ledger.uuid_counter
    /\ returned' = ledger.returned
    /\ append_failed' = ledger.append_failed

IsViolationAlways(level) == TRUE

IsViolation(level) == level \in {ERROR, CRITICAL}

\* the counters and the dispatch that check and escalate have in common
Fire(call, output, event) ==
    LET d == Monitor_handle_event(config, ledger_attached, TheLedger, event)
    IN /\ event_count' = event_count + 1
       /\ violation_count' = IF IsViolation(event.level)
                             THEN violation_count + 1
                             ELSE violation_count
       /\ fired_levels' = Append(fired_levels, event.level)
       /\ LedgerBecomes(d.ledger)
       /\ last_call' = Called(call, output, d)

LastEmitting(results) ==
    IF \A k \in 1..Len(results) : results[k] = << >> THEN 0
    ELSE CHOOSE k \in 1..Len(results) :
            results[k] # << >> /\ \A j \in (k + 1)..Len(results) : results[j] = << >>

\* the first rule, in declared order, whose check returns an event (0: none)
FirstEmitting(results) ==
    IF \A k \in 1..Len(results) : results[k] = << >> THEN 0
    ELSE CHOOSE k \in 1..Len(results) :
            results[k] # << >> /\ \A j \in 1..(k - 1) : results[j] = << >>

RuleResultsOfDefaults(rules, operation, inputs, output) ==
    [k \in 1..Len(MonitorConfig_post_init(rules)) |->
        Rule_check(MonitorConfig_post_init(rules)[k], operation, inputs, output)]

RuleResults(rules, operation, inputs, output) ==
    [k \in 1..Len(rules) |-> Rule_check(rules[k], operation, inputs, output)]

\* the first rule, in declared order, whose check raises (0: none)
FirstRaising(rules, operation, inputs, output) ==
    IF \A k \in 1..Len(rules) : ~Rule_check_raises(rules[k], operation, inputs, output)
    THEN 0
    ELSE CHOOSE k \in 1..Len(rules) :
            /\ Rule_check_raises(rules[k], operation, inputs, output)
            /\ \A j \in 1..(k - 1) :
                  ~Rule_check_raises(rules[j], operation, inputs, output)

Monitor_check(operation, inputs, output) ==
    /\ calls < MaxCalls
    /\ calls' = calls + 1
    /\ LET results == RuleResults(config.rules, operation, inputs, output)
           first == FirstEmitting(results)
           raising == FirstRaising(config.rules, operation, inputs, output)
       IN IF raising # 0 /\ (first = 0 \/ raising < first)
          THEN \* the exception of rule.check leaves check before any event
               /\ last_call' = [NoCall EXCEPT !.call = "check", !.output = <<output>>,
                                              !.raised = "rule"]
               /\ UNCHANGED <<event_count, violation_count, fired_levels, leaves,
                              root_cache, entries, mem_index, timestamp_counter,
                              uuid_counter, returned, append_failed>>
          ELSE IF first = 0
          THEN /\ last_call' = [NoCall EXCEPT !.call = "check", !.output = <<output>>]
               /\ UNCHANGED <<event_count, violation_count, fired_levels, leaves,
                              root_cache, entries, mem_index, timestamp_counter,
                              uuid_counter, returned, append_failed>>
          ELSE Fire("check", <<output>>, results[first][1])
    /\ UNCHANGED <<config, ledger_attached, rules_given, proof, backend_kind, constructs,
                   max_at_construct, tampered, thread_vars, rule_call, policy_call,
                   manager_vars, core_call>>

EventIsNoneAlways(event) == TRUE

\* `event is None`, for the Optional[Event] that check returned
EventIsNone(event) == event = << >>

\* Monitor.monitor: check(...), then `return event is None`; an exception of
\* check leaves monitor as well, and nothing is returned
Monitor_monitor(operation, inputs, output) ==
    /\ calls < MaxCalls
    /\ calls' = calls + 1
    /\ LET results == RuleResults(config.rules, operation, inputs, output)
           first == FirstEmitting(results)
           raising == FirstRaising(config.rules, operation, inputs, output)
       IN IF raising # 0 /\ (first = 0 \/ raising < first)
          THEN /\ last_call' = [NoCall EXCEPT !.call = "monitor", !.output = <<output>>,
                                              !.raised = "rule"]
               /\ UNCHANGED <<event_count, violation_count, fired_levels, leaves,
                              root_cache, entries, mem_index, timestamp_counter,
                              uuid_counter, returned, append_failed>>
          ELSE IF first = 0
          THEN /\ last_call' = [NoCall EXCEPT !.call = "monitor", !.output = <<output>>,
                                              !.result = <<EventIsNone(<< >>)>>]
               /\ UNCHANGED <<event_count, violation_count, fired_levels, leaves,
                              root_cache, entries, mem_index, timestamp_counter,
                              uuid_counter, returned, append_failed>>
          ELSE LET event == results[first][1]
                   d == Monitor_handle_event(config, ledger_attached, TheLedger, event)
               IN /\ event_count' = event_count + 1
                  /\ violation_count' = IF IsViolation(event.level)
                                        THEN violation_count + 1
                                        ELSE violation_count
                  /\ fired_levels' = Append(fired_levels, event.level)
                  /\ LedgerBecomes(d.ledger)
                  /\ last_call' =
                        [Called("monitor", <<output>>, d) EXCEPT
                            !.result = IF d.raised = "none"
                                       THEN <<EventIsNone(<<d.event>>)>>
                                       ELSE << >>]
    /\ UNCHANGED <<config, ledger_attached, rules_given, proof, backend_kind, constructs,
                   max_at_construct, tampered, thread_vars, rule_call, policy_call,
                   manager_vars, core_call>>

Monitor_escalate_undispatched(event) ==
    /\ calls < MaxCalls
    /\ calls' = calls + 1
    /\ event_count' = event_count + 1
    /\ violation_count' = IF IsViolation(event.level)
                          THEN violation_count + 1
                          ELSE violation_count
    /\ fired_levels' = Append(fired_levels, event.level)
    /\ last_call' = [NoCall EXCEPT !.call = "escalate", !.event = <<event>>]
    /\ UNCHANGED <<config, ledger_attached, rules_given, merkle_vars, ledger_vars,
                   thread_vars, rule_call, policy_call, manager_vars, core_call>>

Monitor_escalate(event) ==
    /\ calls < MaxCalls
    /\ calls' = calls + 1
    /\ Fire("escalate", << >>, event)
    /\ UNCHANGED <<config, ledger_attached, rules_given, proof, backend_kind, constructs,
                   max_at_construct, tampered, thread_vars, rule_call, policy_call,
                   manager_vars, core_call>>

Monitor_reset ==
    /\ event_count' = 0
    /\ violation_count' = 0
    /\ fired_levels' = << >>
    /\ last_call' = NoCall
    /\ UNCHANGED <<config, ledger_attached, rules_given, calls, merkle_vars, ledger_vars,
                   thread_vars, rule_call, policy_call,
                   manager_vars, core_call>>

Monitor_add_rule(rule) ==
    /\ calls < MaxCalls
    /\ calls' = calls + 1
    /\ config' = [config EXCEPT !.rules = Append(@, rule)]
    /\ last_call' = NoCall
    /\ UNCHANGED <<ledger_attached, rules_given, event_count, violation_count, fired_levels,
                   merkle_vars, ledger_vars, thread_vars, rule_call, policy_call,
                   manager_vars, core_call>>

Monitor_add_handler(handler) ==
    /\ calls < MaxCalls
    /\ calls' = calls + 1
    /\ config' = [config EXCEPT !.handlers = Append(@, handler)]
    /\ last_call' = NoCall
    /\ UNCHANGED <<ledger_attached, rules_given, event_count, violation_count, fired_levels,
                   merkle_vars, ledger_vars, thread_vars, rule_call, policy_call,
                   manager_vars, core_call>>

\* `config.rules = []` by the owner of the configuration, after construction
Config_clear_rules ==
    /\ calls < MaxCalls
    /\ calls' = calls + 1
    /\ config.rules # << >>
    /\ config' = [config EXCEPT !.rules = << >>]
    /\ last_call' = NoCall
    /\ UNCHANGED <<ledger_attached, rules_given, event_count, violation_count, fired_levels,
                   merkle_vars, ledger_vars, thread_vars, rule_call, policy_call,
                   manager_vars, core_call>>

(***************************************************************************)
(* A rule called on its own: rule_call records the rule, the output it was *)
(* given and the result of its check.                                      *)
(***************************************************************************)
FloatValues == {NaN, NegInf, PosInf, Fin(-1000), Fin(0), Fin(10000), Fin(100000)}

\* two rules that fire together, the more severe one first
HighFirst == <<ThresholdRule(Fin(10000), CRITICAL), CoverageRule(Fin(100), INFO)>>

RulesChecked ==
    { InvariantRule, CoverageRule(Fin(100), WARNING), ThresholdRule(Fin(10000), ERROR),
      CompositeRule(BothFire, "and"), CompositeRule(BothFire, "or"), CustomRule,
      CompositeRule(HighFirst, "and"), CompositeRule(<<InvariantRule>>, "and") }

NoRuleCall == [rule |-> InvariantRule, output |-> << >>, result |-> << >>]

Rule_call(rule, output) ==
    /\ rule_call' = [rule |-> rule, output |-> <<output>>,
                     result |-> Rule_check(rule, CheckOperation, CheckInputs, output)]
    /\ UNCHANGED <<merkle_vars, ledger_vars, thread_vars, config, ledger_attached, rules_given,
                   event_count, violation_count, calls, fired_levels, last_call,
                   policy_call,
                   manager_vars, core_call>>

(***************************************************************************)
(* nupolicy: the rule specifications of a policy document, the validator   *)
(* of validator.py and the compiler policy_to_monitor_config of            *)
(* integration.py.  A rule specification is a dict; a key that is absent   *)
(* is << >> and a key that is present is a one-element sequence.  A        *)
(* version string is modelled by its parts between the dots.               *)
(***************************************************************************)
RuleSpec(type) ==
    [type |-> type, level |-> << >>, threshold |-> << >>, max_uncertainty |-> << >>,
     mode |-> << >>, rules |-> << >>]

CoverageSpec == [RuleSpec("CoverageRule") EXCEPT !.threshold = <<Fin(100)>>,
                                                 !.level = <<"warning">>]

ThresholdSpec == [RuleSpec("ThresholdRule") EXCEPT !.max_uncertainty = <<Fin(10000)>>,
                                                   !.level = <<"error">>]

PolicyRuleSpecs ==
    { RuleSpec("InvariantRule"),
      CoverageSpec,
      ThresholdSpec,
      RuleSpec("NonExistentRule"),
      [RuleSpec("NonExistentRule") EXCEPT !.level = <<"fatal">>],
      [RuleSpec("CompositeRule") EXCEPT !.mode = <<"and">>,
                                        !.rules = <<<<CoverageSpec, ThresholdSpec>>>>],
      [RuleSpec("CompositeRule") EXCEPT !.mode = <<"all">>,
                                        !.rules = <<<<CoverageSpec>>>>],
      [RuleSpec("CompositeRule") EXCEPT !.rules = <<<<RuleSpec("InvariantRule")>>>>],
      [RuleSpec("CompositeRule") EXCEPT
          !.mode = <<"or">>,
          !.rules = <<<<CoverageSpec,
                        [RuleSpec("CompositeRule") EXCEPT
                            !.mode = <<"and">>, !.rules = <<<<ThresholdSpec>>>>]>>>>],
      [RuleSpec("CompositeRule") EXCEPT !.mode = <<"and">>, !.rules = <<<< >>>>],
      [RuleSpec("CompositeRule") EXCEPT
          !.rules = <<<<[CoverageSpec EXCEPT !.level = <<"fatal">>]>>>>] }

VALID_RULE_TYPES ==
    {"CoverageRule", "InvariantRule", "ThresholdRule", "CompositeRule", "CustomRule"}

VALID_EVENT_LEVELS == {INFO, WARNING, ERROR, CRITICAL}

Digits == {"0", "1", "2", "3", "4", "5", "6", "7", "8", "9"}

PolicyValidator_is_valid_version(version) ==
    Len(version) = 3 /\ \A i \in 1..Len(version) : version[i] \in Digits

\* PolicyValidator._validate_rule: the errors of one rule, in order
PolicyValidator_validate_rule(rule) ==
    (IF rule.type \notin VALID_RULE_TYPES THEN <<"unknown rule type">> ELSE << >>)
    \o (CASE rule.type = "CoverageRule" ->
                IF rule.threshold = << >> THEN <<"missing threshold">>
                ELSE IF FloatLt(rule.threshold[1], Fin(0)) \/ FloatGt(rule.threshold[1], Fin(1000))
                     THEN <<"threshold must be between 0 and 1">>
                     ELSE << >>
          [] rule.type = "ThresholdRule" ->
                IF rule.max_uncertainty = << >> THEN <<"missing max_uncertainty">>
                ELSE IF FloatLt(rule.max_uncertainty[1], Fin(0))
                     THEN <<"max_uncertainty must be non-negative">>
                     ELSE << >>
          [] rule.type = "CompositeRule" ->
                (IF rule.rules = << >> THEN <<"missing rules list">> ELSE << >>)
                \o (IF rule.mode # << >> /\ rule.mode[1] \notin {"and", "or"}
                    THEN <<"mode must be and or or">>
                    ELSE << >>)
          [] OTHER -> << >>)
    \o (IF rule.level # << >> /\ rule.level[1] \notin VALID_EVENT_LEVELS
        THEN <<"invalid event level">>
        ELSE << >>)

RECURSIVE RuleErrors(_, _)
RuleErrors(rules, k) ==
    IF k > Len(rules) THEN << >>
    ELSE PolicyValidator_validate_rule(rules[k]) \o RuleErrors(rules, k + 1)

\* PolicyValidator.validate: the list of errors (the result is valid when it
\* is empty)
PolicyValidator_validate(policy) ==
    (IF PolicyValidator_is_valid_version(policy.version)
     THEN << >>
     ELSE <<"invalid version format">>)
    \o RuleErrors(policy.rules, 1)

\* EventLevel[level_str.upper()] with level_str = rule.get('level', 'warning'):
\* << >> when the lookup raises KeyError
EventLevelOf(rule) ==
    IF rule.level = << >> THEN <<WARNING>>
    ELSE IF rule.level[1] \in VALID_EVENT_LEVELS THEN <<rule.level[1]>> ELSE << >>

Compiling(raised, rules) == [raised |-> raised, rules |-> rules]

\* the inner loop over the children of a CompositeRule specification
RECURSIVE CompileSubRules(_, _, _)
CompileSubRules(specs, k, c) ==
    IF k > Len(specs) \/ c.raised # "none" THEN c
    ELSE LET sub == specs[k]
             sub_level == EventLevelOf(sub)
         IN IF sub_level = << >>
            THEN Compiling("KeyError", c.rules)
            ELSE CompileSubRules(specs, k + 1,
                    CASE sub.type = "CoverageRule" ->
                            Compiling("none", Append(c.rules,
                                CoverageRule(IF sub.threshold = << >> THEN Fin(100)
                                             ELSE sub.threshold[1], sub_level[1])))
                      [] sub.type = "ThresholdRule" ->
                            Compiling("none", Append(c.rules,
                                ThresholdRule(IF sub.max_uncertainty = << >> THEN Fin(10000)
                                              ELSE sub.max_uncertainty[1], sub_level[1])))
                      [] OTHER -> c)

\* one iteration of `for rule_dict in config.rules`
CompileRule(rule, c) ==
    LET level == EventLevelOf(rule)
    IN IF level = << >> THEN Compiling("KeyError", c.rules)
       ELSE CASE rule.type = "CoverageRule" ->
                    Compiling("none", Append(c.rules,
                        CoverageRule(IF rule.threshold = << >> THEN Fin(100)
                                     ELSE rule.threshold[1], level[1])))
              [] rule.type = "InvariantRule" ->
                    Compiling("none", Append(c.rules, InvariantRule))
              [] rule.type = "ThresholdRule" ->
                    Compiling("none", Append(c.rules,
                        ThresholdRule(IF rule.max_uncertainty = << >> THEN Fin(10000)
                                      ELSE rule.max_uncertainty[1], level[1])))
              [] rule.type = "CompositeRule" ->
                    LET subs == CompileSubRules(IF rule.rules = << >> THEN << >>
                                                ELSE rule.rules[1],
                                                1, Compiling("none", << >>))
                        mode == IF rule.mode = << >> THEN "or" ELSE rule.mode[1]
                    IN IF subs.raised # "none" THEN Compiling(subs.raised, c.rules)
                       ELSE IF mode \notin {"or", "and"}
                            THEN Compiling("ValueError", c.rules)
                            ELSE Compiling("none",
                                           Append(c.rules, CompositeRule(subs.rules, mode)))
              [] OTHER -> c

RECURSIVE CompileRules(_, _, _)
CompileRules(specs, k, c) ==
    IF k > Len(specs) \/ c.raised # "none" THEN c
    ELSE CompileRules(specs, k + 1, CompileRule(specs[k], c))

\* policy_to_monitor_config(policy, validate): the exception raised ("none"
\* when it returns) and the MonitorConfig returned
policy_to_monitor_config(policy, validate) ==
    IF validate /\ PolicyValidator_validate(policy) # << >>
    THEN [raised |-> "PolicyValidationError", config |-> << >>]
    ELSE LET c == CompileRules(policy.rules, 1, Compiling("none", << >>))
         IN IF c.raised # "none"
            THEN [raised |-> c.raised, config |-> << >>]
            ELSE [raised |-> "none",
                  config |-> <<MonitorConfig(c.rules, << >>,
                                  IF policy.escalation.auto_log = << >> THEN TRUE
                                  ELSE policy.escalation.auto_log[1],
                                  IF policy.escalation.halt_on_critical = << >> THEN FALSE
                                  ELSE policy.escalation.halt_on_critical[1])>>]

\* the policies compiled: every list of at most MaxPolicyRules rule specifications
RECURSIVE RuleSpecLists(_)
RuleSpecLists(n) ==
    IF n = 0 THEN {<< >>}
    ELSE LET shorter == RuleSpecLists(n - 1)
         IN shorter \cup {Append(l, r) : l \in shorter, r \in PolicyRuleSpecs}

Versions == {<<"1", "0", "0">>, <<"1", "0">>}

Escalations ==
    { [halt_on_critical |-> << >>, auto_log |-> << >>],
      [halt_on_critical |-> <<TRUE>>, auto_log |-> <<FALSE>>] }

Policies ==
    [version : Versions, rules : RuleSpecLists(MaxPolicyRules), escalation : Escalations]

NotCalled == [raised |-> "not called", config |-> << >>]

NoPolicyCall ==
    [policy |-> [version |-> <<"1", "0", "0">>, rules |-> << >>,
                 escalation |-> [halt_on_critical |-> << >>, auto_log |-> << >>]],
     validate |-> TRUE, result |-> NotCalled]

\* the call policy_to_monitor_config(policy, validate) on the arguments drawn
Policy_compile ==
    /\ policy_call.result = NotCalled
    /\ policy_call' = [policy_call EXCEPT !.result =
                          policy_to_monitor_config(policy_call.policy, policy_call.validate)]
    /\ UNCHANGED <<merkle_vars, ledger_vars, thread_vars, config, ledger_attached,
                   rules_given, event_count, violation_count, calls, fired_levels,
                   last_call, rule_call, manager_vars, core_call>>

\* create_monitor_from_policy(policy, ledger, validate), after its call of
\* policy_to_monitor_config has returned: Monitor(config=monitor_config,
\* ledger=ledger), with a Ledger(MemoryBackend()) or None for the ledger
Policy_create_monitor(attached) ==
    /\ policy_call.result.raised = "none"
    /\ last_call = NoCall
    /\ config' = policy_call.result.config[1]
    /\ rules_given' = CompileRules(policy_call.policy.rules, 1,
                                   Compiling("none", << >>)).rules
    /\ ledger_attached' = attached
    /\ event_count' = 0
    /\ violation_count' = 0
    /\ last_call' = [NoCall EXCEPT !.call = "Monitor"]
    /\ UNCHANGED <<merkle_vars, ledger_vars, thread_vars, calls, fired_levels,
                   rule_call, policy_call, manager_vars, core_call>>

\* the outputs the monitor of a policy is asked to check
PolicyCheckOutputs ==
    { Pair(Fin(100000), Fin(5000)),      \* (100.0, 5.0): coverage 0.05
      Pair(Fin(100000), Fin(-1000)) }    \* (100.0, -1.0): negative uncertainty

\* monitor.check(...) on the monitor created from the policy
Policy_monitor_check(output) ==
    /\ last_call.call # "none"
    /\ Monitor_check(CheckOperation, CheckInputs, output)

(***************************************************************************)
(* nupolicy/policy.py: PolicyConfig, Policy, PolicyLoader and              *)
(* PolicyManager.  Policy objects live in the sequence `policies`, and an  *)
(* object is known by its position there, so that two references to one    *)
(* object see the same fields.  A JSON document is the dict that           *)
(* Policy.to_dict writes; a key that is absent or null is << >> and a key  *)
(* that is present is a one-element sequence.                              *)
(***************************************************************************)
PolicyConfig(version, name, description, rules, escalation, metadata) ==
    [version |-> version, name |-> name, description |-> description,
     rules |-> rules, escalation |-> escalation, metadata |-> metadata]

\* json.dumps(config.to_dict(), sort_keys=True): the fields in key order
CanonicalJson(c) ==
    <<"description", c.description, "escalation", c.escalation,
      "metadata", c.metadata, "name", c.name, "rules", c.rules,
      "version", c.version>>

Policy_compute_hash(c) == <<"sha256", CanonicalJson(c)>>

Policy_post_init(c, policy_hash) ==
    IF policy_hash = << >> THEN <<Policy_compute_hash(c)>> ELSE policy_hash

Policy(c, signature, public_key, policy_hash) ==
    [config |-> c, signature |-> signature, public_key |-> public_key,
     policy_hash |-> Policy_post_init(c, policy_hash)]

Policy_to_dict(p) ==
    [config |-> <<p.config>>, signature |-> p.signature, public_key |-> p.public_key,
     policy_hash |-> p.policy_hash]

\* Policy.from_dict: << >> when data['config'] raises KeyError
Policy_from_dict(data) ==
    IF data.config = << >> THEN << >>
    ELSE <<Policy(data.config[1], data.signature, data.public_key, data.policy_hash)>>

\* Ed25519: a signature names the key that made it and the message signed
Ed25519Sign(private_key, message) == [key |-> private_key, message |-> message]

Ed25519PublicKey(private_key) == [key |-> private_key]

\* Policy.verify_signature: "ValueError" without the cryptography library
Policy_verify_signature(p, crypto) ==
    IF ~crypto THEN "ValueError"
    ELSE IF p.signature = << >> \/ p.public_key = << >> THEN "False"
    ELSE IF /\ p.signature[1].key = p.public_key[1].key
            /\ p.signature[1].message = p.policy_hash[1]
         THEN "True"
         ELSE "False"

\* PolicyLoader.load_from_string and the part of load_from_file after json.load
PolicyLoader_load(data, require_signature, crypto) ==
    LET policy == Policy_from_dict(data)
    IN IF policy = << >> THEN [raised |-> "KeyError", policy |-> << >>]
       ELSE IF require_signature /\ Policy_verify_signature(policy[1], crypto) # "True"
            THEN [raised |-> "ValueError", policy |-> << >>]
            ELSE [raised |-> "none", policy |-> policy]

\* PolicyLoader.load_from_file over the directory `files`
PolicyLoader_load_from_file(files, name, require_signature, crypto) ==
    IF files[name] = << >> THEN [raised |-> "FileNotFoundError", policy |-> << >>]
    ELSE PolicyLoader_load(files[name][1], require_signature, crypto)

\* the arguments of the calls the model makes
PolicyNames == {"evolving_v1", "evolving_v2"}

RuleDictLists ==
    { <<CoverageSpec>>, <<[CoverageSpec EXCEPT !.threshold = <<Fin(50)>>]>> }

ConfigVersions == {"1.0.0", "2.0.0"}

DefaultMetadata(now) == [created_at |-> now, author |-> "NUPolicy"]

GivenConfigs ==
    { PolicyConfig(v, "EvolvingPolicy", "Version 1", rules, << >>, << >>) :
         v \in ConfigVersions, rules \in {<<CoverageSpec>>} }

PrivateKeys == {"key1"}

NoDocument ==
    [config |-> << >>, signature |-> << >>, public_key |-> << >>, policy_hash |-> << >>]

\* the policy_hash of a config that differs from c in its rules
OtherHash(c) == Policy_compute_hash([c EXCEPT !.rules = << >>])

\* to_dict of Policy(config=c) after PolicyLoader.sign_policy with private_key
SignedDocument(c, private_key) ==
    [config |-> <<c>>,
     signature |-> <<Ed25519Sign(private_key, Policy_compute_hash(c))>>,
     public_key |-> <<Ed25519PublicKey(private_key)>>,
     policy_hash |-> <<Policy_compute_hash(c)>>]

\* a signed document whose config was edited afterwards: another version,
\* with signature, public_key and policy_hash as signed
AlteredSignedDocuments ==
    { d \in { [SignedDocument(c, k) EXCEPT !.config = <<[c EXCEPT !.version = v]>>] :
                 c \in GivenConfigs, k \in PrivateKeys, v \in ConfigVersions } :
         d.policy_hash # <<Policy_compute_hash(d.config[1])>> }

\* the documents loaded: without a policy_hash, with the policy_hash of their
\* config, with the policy_hash of another config, and one without a config
Documents ==
    UNION { { [NoDocument EXCEPT !.config = <<c>>],
              [NoDocument EXCEPT !.config = <<c>>,
                                 !.policy_hash = <<Policy_compute_hash(c)>>],
              [NoDocument EXCEPT !.config = <<c>>,
                                 !.policy_hash = <<OtherHash(c)>>] } :
            c \in GivenConfigs }
    \cup {NoDocument}

\* the strings handed to load_from_string
DocumentStrings == Documents \cup AlteredSignedDocuments

NoManagerCall == [op |-> "none", raised |-> "none", returned |-> << >>]

ManagerCalled(op, raised, result) ==
    [op |-> op, raised |-> raised, returned |-> result]

\* Policy(config=config, policy_hash=policy_hash)
Policy_construct(c, policy_hash) ==
    /\ manager_calls < MaxManagerCalls
    /\ manager_calls' = manager_calls + 1
    /\ policies' = Append(policies, Policy(c, << >>, << >>, policy_hash))
    /\ manager_call' = ManagerCalled("Policy", "none", <<Len(policies) + 1>>)
    /\ UNCHANGED <<policy_files, current_policy, policy_history, crypto_available>>
    /\ UNCHANGED <<merkle_vars, ledger_vars, thread_vars, guard_vars, core_call>>

PolicyLoader_load_from_string(data, require_signature) ==
    /\ manager_calls < MaxManagerCalls
    /\ manager_calls' = manager_calls + 1
    /\ LET r == PolicyLoader_load(data, require_signature, crypto_available)
       IN IF r.raised # "none"
          THEN /\ manager_call' = ManagerCalled("load_from_string", r.raised, << >>)
               /\ UNCHANGED policies
          ELSE /\ policies' = Append(policies, r.policy[1])
               /\ manager_call' =
                     ManagerCalled("load_from_string", "none", <<Len(policies) + 1>>)
    /\ UNCHANGED <<policy_files, current_policy, policy_history, crypto_available>>
    /\ UNCHANGED <<merkle_vars, ledger_vars, thread_vars, guard_vars, core_call>>

\* PolicyLoader.sign_policy on the policy object number id, in place
PolicyLoader_sign_policy(id, private_key) ==
    /\ manager_calls < MaxManagerCalls
    /\ manager_calls' = manager_calls + 1
    /\ IF ~crypto_available
       THEN /\ manager_call' = ManagerCalled("sign_policy", "ValueError", << >>)
            /\ UNCHANGED policies
       ELSE /\ policies' =
                  [policies EXCEPT
                     ![id].signature =
                         <<Ed25519Sign(private_key, policies[id].policy_hash[1])>>,
                     ![id].public_key = <<Ed25519PublicKey(private_key)>>]
            /\ manager_call' = ManagerCalled("sign_policy", "none", <<id>>)
    /\ UNCHANGED <<policy_files, current_policy, policy_history, crypto_available>>
    /\ UNCHANGED <<merkle_vars, ledger_vars, thread_vars, guard_vars, core_call>>

\* `policy.config.version = version` by the holder of the policy object
Config_set_version(id, version) ==
    /\ manager_calls < MaxManagerCalls
    /\ manager_calls' = manager_calls + 1
    /\ policies[id].config.version # version
    /\ policies' = [policies EXCEPT ![id].config.version = version]
    /\ manager_call' = ManagerCalled("set_version", "none", <<id>>)
    /\ UNCHANGED <<policy_files, current_policy, policy_history, crypto_available>>
    /\ UNCHANGED <<merkle_vars, ledger_vars, thread_vars, guard_vars, core_call>>

PolicyManager_create_policy(name, description, rules) ==
    /\ manager_calls < MaxManagerCalls
    /\ manager_calls' = manager_calls + 1
    /\ policies' = Append(policies,
          Policy(PolicyConfig("1.0.0", name, description, rules, << >>,
                              DefaultMetadata(manager_calls)),
                 << >>, << >>, << >>))
    /\ current_policy' = <<Len(policies) + 1>>
    /\ manager_call' = ManagerCalled("create_policy", "none", <<Len(policies) + 1>>)
    /\ UNCHANGED <<policy_files, policy_history, crypto_available>>
    /\ UNCHANGED <<merkle_vars, ledger_vars, thread_vars, guard_vars, core_call>>

PolicyManager_save_policy(id, name) ==
    /\ manager_calls < MaxManagerCalls
    /\ manager_calls' = manager_calls + 1
    /\ policy_files' = [policy_files EXCEPT ![name] = <<Policy_to_dict(policies[id])>>]
    /\ manager_call' = ManagerCalled("save_policy", "none", << >>)
    /\ UNCHANGED <<policies, current_policy, policy_history, crypto_available>>
    /\ UNCHANGED <<merkle_vars, ledger_vars, thread_vars, guard_vars, core_call>>

HistoryReplaced(history, id) == <<id>>

\* self.policy_history.append(policy)
HistoryAppended(history, id) == Append(history, id)

PolicyManager_load_policy(name, require_signature) ==
    /\ manager_calls < MaxManagerCalls
    /\ manager_calls' = manager_calls + 1
    /\ LET r == PolicyLoader_load_from_file(policy_files, name, require_signature,
                                            crypto_available)
       IN IF r.raised # "none"
          THEN /\ manager_call' = ManagerCalled("load_policy", r.raised, << >>)
               /\ UNCHANGED <<policies, current_policy, policy_history>>
          ELSE /\ policies' = Append(policies, r.policy[1])
               /\ current_policy' = <<Len(policies) + 1>>
               /\ policy_history' = HistoryAppended(policy_history, Len(policies) + 1)
               /\ manager_call' =
                     ManagerCalled("load_policy", "none", <<Len(policies) + 1>>)
    /\ UNCHANGED <<policy_files, crypto_available>>
    /\ UNCHANGED <<merkle_vars, ledger_vars, thread_vars, guard_vars, core_call>>

(***************************************************************************)
(* nucore/operations.py: the algebra over (n, u) pairs.  The arithmetic is *)
(* that of the float model above, in thousandths, for finite operands:     *)
(* products and quotients are truncated to a thousandth and the square     *)
(* root is rounded down to a thousandth, which is exact for the whole      *)
(* numbers the operations are called with whenever the result is a whole   *)
(* number.                                                                 *)
(***************************************************************************)
FloatGe(a, b) == FloatGt(a, b) \/ FloatEq(a, b)

FloatAdd(a, b) == Fin(a.v + b.v)

FloatMul(a, b) == Fin((a.v * b.v) \div 1000)

FloatNeg(a) ==
    CASE a.k = "fin" -> Fin(0 - a.v)
      [] a.k = "inf" -> NegInf
      [] a.k = "ninf" -> PosInf
      [] OTHER -> NaN

\* the largest r in lo..hi with r * r <= x, given lo * lo <= x < hi * hi
RECURSIVE SqrtBetween(_, _, _)
SqrtBetween(lo, hi, x) ==
    IF hi - lo <= 1 THEN lo
    ELSE LET mid == (lo + hi) \div 2
         IN IF mid * mid <= x THEN SqrtBetween(mid, hi, x) ELSE SqrtBetween(lo, mid, x)

\* math.sqrt of a finite non-negative value
FloatSqrt(a) == Fin(SqrtBetween(0, 46340, a.v * 1000))

math_isnan(a) == a.k = "nan"

math_isinf(a) == a.k \in {"inf", "ninf"}

Returned(n_out, u_out) == [raised |-> "none", value |-> <<Pair(n_out, u_out)>>]

AssertionError == [raised |-> "AssertionError", value |-> << >>]

add(n1, u1, n2, u2) ==
    IF ~FloatGe(u1, Fin(0)) \/ ~FloatGe(u2, Fin(0)) THEN AssertionError
    ELSE LET n_out == FloatAdd(n1, n2)
             u_out == FloatSqrt(FloatAdd(FloatMul(u1, u1), FloatMul(u2, u2)))
         IN IF ~FloatGe(u_out, Fin(0)) THEN AssertionError ELSE Returned(n_out, u_out)

multiply(n1, u1, n2, u2, lambda_margin) ==
    IF \/ ~FloatGe(u1, Fin(0))
       \/ ~FloatGe(u2, Fin(0))
       \/ ~FloatGe(lambda_margin, Fin(1000))
    THEN AssertionError
    ELSE LET term1 == FloatMul(n1, u2)
             term2 == FloatMul(n2, u1)
             term3 == FloatMul(u1, u2)
             n_out == FloatMul(n1, n2)
             u_out == FloatMul(lambda_margin,
                               FloatSqrt(FloatAdd(FloatAdd(FloatMul(term1, term1),
                                                           FloatMul(term2, term2)),
                                                  FloatMul(term3, term3))))
         IN IF ~FloatGe(u_out, Fin(0)) THEN AssertionError ELSE Returned(n_out, u_out)

compose_keeping_equal_pairs(n1, u1, n2, u2) ==
    IF ~FloatGe(u1, Fin(0)) \/ ~FloatGe(u2, Fin(0)) THEN AssertionError
    ELSE IF FloatEq(u1, Fin(0)) /\ FloatEq(u2, Fin(0))
         THEN Returned(FloatDiv(FloatAdd(n1, n2), Fin(2000)), Fin(0))
    ELSE IF FloatEq(u1, Fin(0)) THEN Returned(n1, Fin(0))
    ELSE IF FloatEq(u2, Fin(0)) THEN Returned(n2, Fin(0))
    ELSE IF n1 = n2 /\ u1 = u2 THEN Returned(n1, u1)
    ELSE LET u1_sq == FloatMul(u1, u1)
             u2_sq == FloatMul(u2, u2)
             denom == FloatAdd(u1_sq, u2_sq)
             n_out == FloatDiv(FloatAdd(FloatMul(n1, u2_sq), FloatMul(n2, u1_sq)), denom)
             u_out == FloatSqrt(FloatDiv(FloatMul(u1_sq, u2_sq), denom))
         IN \* the slack of 1e-10 the code allows is below a thousandth
            IF ~FloatGe(u_out, Fin(0)) \/ FloatGt(u_out, u1) \/ FloatGt(u_out, u2)
            THEN AssertionError
            ELSE Returned(n_out, u_out)

compose(n1, u1, n2, u2) ==
    IF ~FloatGe(u1, Fin(0)) \/ ~FloatGe(u2, Fin(0)) THEN AssertionError
    ELSE IF FloatEq(u1, Fin(0)) /\ FloatEq(u2, Fin(0))
         THEN Returned(FloatDiv(FloatAdd(n1, n2), Fin(2000)), Fin(0))
    ELSE IF FloatEq(u1, Fin(0)) THEN Returned(n1, Fin(0))
    ELSE IF FloatEq(u2, Fin(0)) THEN Returned(n2, Fin(0))
    ELSE LET u1_sq == FloatMul(u1, u1)
             u2_sq == FloatMul(u2, u2)
             denom == FloatAdd(u1_sq, u2_sq)
             n_out == FloatDiv(FloatAdd(FloatMul(n1, u2_sq), FloatMul(n2, u1_sq)), denom)
             u_out == FloatSqrt(FloatDiv(FloatMul(u1_sq, u2_sq), denom))
         IN \* the slack of 1e-10 the code allows is below a thousandth
            IF ~FloatGe(u_out, Fin(0)) \/ FloatGt(u_out, u1) \/ FloatGt(u_out, u2)
            THEN AssertionError
            ELSE Returned(n_out, u_out)

catch_rejecting_infinite_u(n, u, default_n, default_u) ==
    IF math_isnan(n) \/ math_isnan(u) \/ math_isinf(n) \/ math_isinf(u)
          \/ FloatLt(u, Fin(0))
    THEN Returned(default_n, default_u)
    ELSE Returned(n, u)

catch(n, u, default_n, default_u) ==
    IF math_isnan(n) \/ math_isnan(u) \/ math_isinf(n) \/ FloatLt(u, Fin(0))
    THEN Returned(default_n, default_u)
    ELSE Returned(n, u)

flip(n, u) ==
    IF ~FloatGe(u, Fin(0)) THEN AssertionError ELSE Returned(FloatNeg(n), u)

\* the arguments of the calls the model makes
Nominals == {Fin(-2000), Fin(0), Fin(1000), Fin(3000)}

Uncertainties == {Fin(-1000), Fin(0), Fin(1000), Fin(2000), Fin(3000), Fin(4000)}

Margins == {Fin(500), Fin(1000), Fin(2000)}

CaughtValues == {NaN, NegInf, PosInf, Fin(-1000), Fin(0), Fin(5000)}

NotApplied == [raised |-> "not applied", value |-> << >>]

CoreCall(op, n1, u1, n2, u2, lambda_margin, default_n, default_u) ==
    [op |-> op, n1 |-> n1, u1 |-> u1, n2 |-> n2, u2 |-> u2,
     lambda_margin |-> lambda_margin, default_n |-> default_n, default_u |-> default_u,
     result |-> NotApplied]

NoCoreCall == CoreCall("none", Fin(0), Fin(0), Fin(0), Fin(0), Fin(1000), Fin(0), PosInf)

CoreCalls ==
    {CoreCall(op, n1, u1, n2, u2, Fin(1000), Fin(0), PosInf) :
        op \in {"add", "compose"}, n1 \in Nominals, u1 \in Uncertainties,
        n2 \in Nominals, u2 \in Uncertainties}
    \cup {CoreCall("multiply", n1, u1, n2, u2, lambda_margin, Fin(0), PosInf) :
             n1 \in Nominals, u1 \in Uncertainties, n2 \in Nominals,
             u2 \in Uncertainties, lambda_margin \in Margins}
    \cup {CoreCall("catch", n, u, Fin(0), Fin(0), Fin(1000), Fin(0), default_u) :
             n \in CaughtValues, u \in CaughtValues, default_u \in {PosInf, Fin(5000)}}
    \cup {CoreCall("flip", n, u, Fin(0), Fin(0), Fin(1000), Fin(0), PosInf) :
             n \in Nominals, u \in Uncertainties}

Core_add ==
    /\ core_call.op = "add"
    /\ core_call.result = NotApplied
    /\ core_call' = [core_call EXCEPT !.result =
                        add(core_call.n1, core_call.u1, core_call.n2, core_call.u2)]
    /\ UNCHANGED <<merkle_vars, ledger_vars, thread_vars, guard_vars, manager_vars>>

Core_multiply ==
    /\ core_call.op = "multiply"
    /\ core_call.result = NotApplied
    /\ core_call' = [core_call EXCEPT !.result =
                        multiply(core_call.n1, core_call.u1, core_call.n2, core_call.u2,
                                 core_call.lambda_margin)]
    /\ UNCHANGED <<merkle_vars, ledger_vars, thread_vars, guard_vars, manager_vars>>

Core_compose ==
    /\ core_call.op = "compose"
    /\ core_call.result = NotApplied
    /\ core_call' = [core_call EXCEPT !.result =
                        compose(core_call.n1, core_call.u1, core_call.n2, core_call.u2)]
    /\ UNCHANGED <<merkle_vars, ledger_vars, thread_vars, guard_vars, manager_vars>>

Core_catch ==
    /\ core_call.op = "catch"
    /\ core_call.result = NotApplied
    /\ core_call' = [core_call EXCEPT !.result =
                        catch(core_call.n1, core_call.u1, core_call.default_n,
                              core_call.default_u)]
    /\ UNCHANGED <<merkle_vars, ledger_vars, thread_vars, guard_vars, manager_vars>>

Core_flip ==
    /\ core_call.op = "flip"
    /\ core_call.result = NotApplied
    /\ core_call' = [core_call EXCEPT !.result =
                        flip(core_call.n1, core_call.u1)]
    /\ UNCHANGED <<merkle_vars, ledger_vars, thread_vars, guard_vars, manager_vars>>

(***************************************************************************)
(* Initial state: one Ledger constructed over an empty backend of either   *)
(* kind (and, for the tree alone, an empty MerkleTree).                    *)
(***************************************************************************)
LedgerEmpty ==
    /\ leaves = << >>
    /\ root_cache = NoHash
    /\ proof = NoProof
    /\ entries = << >>
    /\ mem_index = << >>
    /\ timestamp_counter = 0
    /\ uuid_counter = 0
    /\ returned = << >>
    /\ constructs = 1
    /\ max_at_construct = 0
    /\ append_failed = FALSE
    /\ tampered = FALSE
    /\ pc = [t \in Threads |-> "idle"]
    /\ t_tmp = [t \in Threads |-> 0]
    /\ t_entry = [t \in Threads |-> NoEntry]
    /\ t_done = [t \in Threads |-> 0]
    /\ t_level = [t \in Threads |-> << >>]

\* Monitor() with no ledger, not called yet
MonitorUnused ==
    /\ config = MonitorConfig(<< >>, << >>, TRUE, FALSE)
    /\ rules_given = << >>
    /\ ledger_attached = FALSE
    /\ event_count = 0
    /\ violation_count = 0
    /\ calls = 0
    /\ fired_levels = << >>
    /\ last_call = NoCall
    /\ rule_call = NoRuleCall
    /\ policy_call = NoPolicyCall

\* PolicyManager(policy_dir) over a new directory, no Policy constructed yet
ManagerUnused ==
    /\ policies = << >>
    /\ policy_files = [name \in PolicyNames |-> << >>]
    /\ current_policy = << >>
    /\ policy_history = << >>
    /\ manager_calls = 0
    /\ manager_call = NoManagerCall
    /\ crypto_available = TRUE
    /\ core_call = NoCoreCall

Init ==
    /\ LedgerEmpty
    /\ backend_kind \in {"memory", "sqlite"}
    /\ MonitorUnused
    /\ ManagerUnused

\* the ledger used by one caller at a time, with its backend open to tampering
Next ==
    \/ Ledger_init
    \/ \E p \in Payloads, parent_id \in ParentChoices, insert_raises \in BOOLEAN :
          Ledger_append(p, parent_id, insert_raises)
    \/ Ledger_verify_integrity
    \/ \E i \in 1..Len(entries), f \in Fields : \E v \in FieldValues(f) : Tamper(i, f, v)

Spec == Init /\ [][Next]_vars

\* the ledger used by one caller, with its backend open to the deletion,
\* duplication and reordering of records
NextAlter ==
    \/ Ledger_init
    \/ \E p \in Payloads, insert_raises \in BOOLEAN : Ledger_append(p, None, insert_raises)
    \/ Ledger_verify_integrity
    \/ \E i \in 1..Len(entries) : Tamper_remove(i)
    \/ \E i \in 1..Len(entries), j \in 1..(Len(entries) + 1) : Tamper_duplicate(i, j)
    \/ \E f \in Reorderings(IF tampered THEN 0 ELSE Len(entries)) : Tamper_permute(f)

SpecAlter == Init /\ [][NextAlter]_vars

\* the Merkle tree used on its own
NextMerkle ==
    \/ \E leaf_hash \in LeafValues : MerkleTree_append(leaf_hash)
    \/ MerkleTree_root
    \/ \E index \in 0..(Len(leaves) - 1) : MerkleTree_generate_proof(index)

SpecMerkle == Init /\ [][NextMerkle]_vars

\* one ledger appended to by concurrent callers
NextConc ==
    \E t \in Threads :
        \/ T_call(t)
        \/ T_load_counter(t)
        \/ T_store_counter(t)
        \/ T_read_timestamp(t)
        \/ T_merkle_append(t)
        \/ T_merkle_invalidate(t)
        \/ T_backend_append(t)
        \/ T_root_call(t)
        \/ T_root_store(t)

SpecConc == Init /\ [][NextConc]_vars

\* the outputs handed to monitor()
MonitorOutputs ==
    { Pair(Fin(100000), Fin(5000)),      \* (100.0, 5.0): coverage 0.05
      Pair(Fin(100000), Fin(15000)) }    \* (100.0, 15.0): coverage 0.15

\* a Monitor over a MonitorConfig built from the caller's arguments, with or
\* without a Ledger(MemoryBackend()), which is also the ledger of every
\* LedgerHandler
InitMonitor ==
    /\ LedgerEmpty
    /\ backend_kind = "memory"
    /\ rules_given \in RuleLists
    /\ config \in {MonitorConfig(rules_given, handlers, auto_log, halt_on_critical) :
                       handlers \in HandlerLists,
                       auto_log \in BOOLEAN, halt_on_critical \in BOOLEAN}
    /\ ledger_attached \in BOOLEAN
    /\ event_count = 0
    /\ violation_count = 0
    /\ calls = 0
    /\ fired_levels = << >>
    /\ last_call = NoCall
    /\ rule_call = NoRuleCall
    /\ policy_call = NoPolicyCall
    /\ ManagerUnused

NextMonitor ==
    \/ \E output \in CheckOutputs : Monitor_check(CheckOperation, CheckInputs, output)
    \/ \E output \in MonitorOutputs : Monitor_monitor(CheckOperation, CheckInputs, output)
    \/ \E event \in EscalatedEvents : Monitor_escalate(event)
    \/ Monitor_reset
    \/ \E rule \in AddableRules : Monitor_add_rule(rule)
    \/ \E handler \in AddableHandlers : Monitor_add_handler(handler)
    \/ Config_clear_rules

SpecMonitor == InitMonitor /\ [][NextMonitor]_vars

\* the rules checked on their own
NextRules ==
    \E rule \in RulesChecked, n \in FloatValues, u \in FloatValues :
        Rule_call(rule, Pair(n, u))

SpecRules == Init /\ [][NextRules]_vars

\* a policy compiled into a monitor configuration
InitPolicy ==
    /\ LedgerEmpty
    /\ backend_kind = "memory"
    /\ config = MonitorConfig(<< >>, << >>, TRUE, FALSE)
    /\ rules_given = << >>
    /\ ledger_attached = FALSE
    /\ event_count = 0
    /\ violation_count = 0
    /\ calls = 0
    /\ fired_levels = << >>
    /\ last_call = NoCall
    /\ rule_call = NoRuleCall
    /\ policy_call \in [policy : Policies, validate : BOOLEAN, result : {NotCalled}]
    /\ ManagerUnused

NextPolicy ==
    \/ Policy_compile
    \/ \E attached \in BOOLEAN : Policy_create_monitor(attached)
    \/ \E output \in PolicyCheckOutputs : Policy_monitor_check(output)

SpecPolicy == InitPolicy /\ [][NextPolicy]_vars

\* Policy objects constructed, loaded, signed and edited, and a PolicyManager
\* over a directory that is empty or already holds a document
InitManager ==
    /\ LedgerEmpty
    /\ backend_kind = "memory"
    /\ MonitorUnused
    /\ policies = << >>
    /\ policy_files \in {[name \in PolicyNames |-> << >>]}
          \cup {[name \in PolicyNames |->
                    IF name = "evolving_v1" THEN <<d>> ELSE << >>] : d \in Documents}
    /\ current_policy = << >>
    /\ policy_history = << >>
    /\ manager_calls = 0
    /\ manager_call = NoManagerCall
    /\ crypto_available \in BOOLEAN
    /\ core_call = NoCoreCall

NextManager ==
    \/ \E c \in GivenConfigs :
          \E policy_hash \in {<< >>, <<OtherHash(c)>>} : Policy_construct(c, policy_hash)
    \/ \E data \in DocumentStrings, require_signature \in BOOLEAN :
          PolicyLoader_load_from_string(data, require_signature)
    \/ \E id \in 1..Len(policies), private_key \in PrivateKeys :
          PolicyLoader_sign_policy(id, private_key)
    \/ \E id \in 1..Len(policies), version \in ConfigVersions :
          Config_set_version(id, version)
    \/ \E name \in PolicyNames, rules \in RuleDictLists :
          PolicyManager_create_policy("EvolvingPolicy", "Version 1", rules)
    \/ \E id \in 1..Len(policies), name \in PolicyNames :
          PolicyManager_save_policy(id, name)
    \/ \E name \in PolicyNames, require_signature \in BOOLEAN :
          PolicyManager_load_policy(name, require_signature)

SpecManager == InitManager /\ [][NextManager]_vars

\* one operation of the algebra applied to the arguments drawn
InitCore ==
    /\ LedgerEmpty
    /\ backend_kind = "memory"
    /\ MonitorUnused
    /\ policies = << >>
    /\ policy_files = [name \in PolicyNames |-> << >>]
    /\ current_policy = << >>
    /\ policy_history = << >>
    /\ manager_calls = 0
    /\ manager_call = NoManagerCall
    /\ crypto_available = TRUE
    /\ core_call \in CoreCalls

NextCore ==
    \/ Core_add
    \/ Core_multiply
    \/ Core_compose
    \/ Core_catch
    \/ Core_flip

SpecCore == InitCore /\ [][NextCore]_vars

(***************************************************************************)
(* Properties of the ledger used by one caller at a time (Spec).           *)
(***************************************************************************)

\* C1: within one Ledger instance the sequence numbers (timestamps) of the
\* records returned by append are strictly increasing in call order.
C1_SequenceStrictlyIncreasing ==
    \A i, j \in 1..Len(returned) :
        i < j => returned[i].timestamp < returned[j].timestamp

C1_Witness ==
    /\ Len(returned) >= 2
    /\ constructs >= 2
    /\ returned[1].timestamp < returned[2].timestamp

\* C2: verify_integrity() is true after any sequence of appends that did not
\* raise, on an untampered backend, for every instance, whether its backend was
\* empty or already held records when the instance was constructed.
C2_VerifyTrueAfterAppends ==
    (~tampered /\ ~append_failed) => verify_integrity

\* C3: append is atomic with respect to the Merkle chain and the backend: in
\* every state of an untampered ledger the Merkle leaves are, in number and
\* order, the hashes of the stored records.
C3_ChainMatchesBackend ==
    ~tampered => leaves = EntryHashes(get_all(backend_kind, entries))

\* a step that modifies a stored record behind the ledger's back, and the
\* field it modifies
TamperStep == ~tampered /\ tampered'

FieldModified(f) ==
    \E i \in 1..Len(entries) : entries'[i][f] # entries[i][f]

\* C5 as stated: modifying any field of a stored record, the signature
\* included, changes the Merkle root recomputed from the stored records.
C5_AnyFieldChangesRoot ==
    [][TamperStep =>
          RecomputedRoot(backend_kind, entries') # RecomputedRoot(backend_kind, entries)]_vars

\* C5 as amended: modifying any field other than the signature changes the
\* recomputed Merkle root; modifying the signature alone leaves it unchanged.
C5_HashedFieldChangesRoot ==
    [][TamperStep =>
          IF FieldModified("signature")
          THEN RecomputedRoot(backend_kind, entries') = RecomputedRoot(backend_kind, entries)
          ELSE RecomputedRoot(backend_kind, entries') # RecomputedRoot(backend_kind, entries)]_vars

C5_Witness ==
    /\ tampered
    /\ Len(entries) >= 2
    /\ ~append_failed
    /\ constructs = 1
    /\ RecomputedRoot(backend_kind, entries) # ComputeRoot(leaves)

\* C6: once records have been appended, changing a hashed field (coverage,
\* sequence, op_id, parent_id, operation, inputs, output, invariant_passed) of
\* one stored record makes verify_integrity() return false.
C6_TamperFailsVerify ==
    [][(TamperStep /\ ~FieldModified("signature")) =>
          ~VerifyIntegrity(backend_kind, entries', root_cache', leaves')]_vars

C6_Witness ==
    /\ tampered
    /\ Len(returned) >= 2
    /\ ~append_failed
    /\ constructs = 1
    /\ \E i \in 1..Len(entries) : entries[i].coverage = "999.0"
    /\ ~verify_integrity

\* C7: the first append of an instance constructed over a backend that holds
\* records gets a sequence number above the largest one stored at construction.
C7_FirstAppendAboveStoredMax ==
    Len(returned) >= 1 => returned[1].timestamp > max_at_construct

\* t is the path of parent links that ends in the stored record x and starts
\* at a record with no parent or with a parent that is not stored
IsCausalPath(t, x) ==
    /\ Len(t) >= 1
    /\ t[Len(t)].op_id = x
    /\ \A k \in 1..Len(t) : \E i \in 1..Len(entries) : entries[i] = t[k]
    /\ \A k \in 1..(Len(t) - 1) : t[k + 1].parent_id = t[k].op_id
    /\ t[1].parent_id = None \/ t[1].parent_id \notin StoredIds(entries)

\* C8: in a ledger built by appends, for a stored op_id x, trace(x) is the path
\* of parent links from x back to the first record with no parent or with a
\* parent that is not stored, root first and x last; for an op_id that is not
\* stored it is empty.
C8_TraceIsCausalPath ==
    ~tampered =>
        \A x \in {Uuid4(k) : k \in 1..MaxAppends} \cup {"never-issued"} :
            IF x \in StoredIds(entries)
            THEN IsCausalPath(trace(x), x)
            ELSE trace(x) = << >>

C8_Witness ==
    /\ ~tampered
    /\ \E x \in StoredIds(entries) :
          /\ Len(trace(x)) = 3
          /\ trace(x)[1].parent_id = "never-issued"
          /\ trace(x)[3].op_id = x

(***************************************************************************)
(* Properties of Ledger.append under concurrent callers (SpecConc).        *)
(***************************************************************************)

\* C4: under concurrent appends on one instance no two records get the same
\* sequence number, and sequence numbers are strictly increasing in the order
\* the records are committed to the backend.
C4_SequenceIncreasingInCommitOrder ==
    \A i, j \in 1..Len(entries) :
        i < j => entries[i].timestamp < entries[j].timestamp

(***************************************************************************)
(* Properties of the Merkle tree on its own (SpecMerkle).                  *)
(***************************************************************************)

\* C9: for any number of leaves and any index in range, the proof returned by
\* generate_proof verifies against the tree's current root; a proof handed out
\* earlier still verifies against the root it carries.
C9_ProofVerifies ==
    /\ \A i \in 0..(Len(leaves) - 1) :
          LET p == generate_proof(root_cache, leaves, i)
          IN verify(p) /\ p.root = ComputeRoot(leaves) /\ p.leaf_hash = leaves[i + 1]
    /\ proof # NoProof => verify(proof)

C9_Witness ==
    /\ Len(leaves) = 5
    /\ proof = generate_proof(root_cache, leaves, 4)
    /\ Len(proof.path) = 3
    /\ verify(proof)

\* C10: the Merkle root changes whenever a leaf is appended, for every tree
\* state and every appended leaf value.
C10_RootChangesOnAppend ==
    [][Len(leaves') = Len(leaves) + 1 =>
          RootOf(root_cache', leaves') # RootOf(root_cache, leaves)]_vars

\* C11: two Merkle trees with the same number of leaves that differ in exactly
\* one leaf position have different roots: replacing the leaf at any one
\* position of the current tree by any other value changes the root.
C11_OneLeafChangesRoot ==
    \A i \in 1..Len(leaves) : \A v \in LeafValues :
        v # leaves[i] => ComputeRoot([leaves EXCEPT ![i] = v]) # ComputeRoot(leaves)

C11_Witness ==
    /\ Len(leaves) = 5
    /\ leaves[5] = <<"leaf1">>
    /\ root_cache = ComputeRoot(leaves)
    /\ ComputeRoot([leaves EXCEPT ![5] = <<"leaf2">>]) # root_cache

(***************************************************************************)
(* Properties of the Monitor (SpecMonitor).                                *)
(***************************************************************************)

\* a step that is a call of check, and one that is a call of check or escalate
CheckStep == calls' = calls + 1 /\ last_call'.call = "check"

FiringStep == calls' = calls + 1 /\ last_call'.call \in {"check", "escalate"}

LoggingOn == config.auto_log /\ ledger_attached

\* the event as the rule returned it, before the monitor annotated it
Unannotated(event) == [event EXCEPT !.op_id = None]

\* the fields of a stored record that the caller of append supplies
RecordPayload(entry) ==
    [operation |-> entry.operation, inputs |-> entry.inputs, output |-> entry.output,
     coverage |-> entry.coverage, invariant_passed |-> entry.invariant_passed]

\* every handler of the list that accepts the event had its handle called
AcceptingHandlersInvoked(handlers, event, invoked) ==
    \A k \in 1..Len(handlers) :
        should_handle(handlers[k], event) = "yes" =>
            \E i \in 1..Len(invoked) : invoked[i].handler = k

\* C12: check evaluates the rules in declared order and stops at the first
\* rule that emits: the event of the call is that rule's event, and the events
\* later rules would produce are neither counted, dispatched nor logged, so one
\* check changes total_events by at most one.
C12_FirstEmittingRuleOnly ==
    [][CheckStep =>
          LET results == RuleResults(config.rules, CheckOperation, CheckInputs,
                                     last_call'.output[1])
              emitting == {k \in 1..Len(results) : results[k] # << >>}
          IN /\ event_count' <= event_count + 1
             /\ IF emitting = {}
                THEN last_call'.event = << >> /\ event_count' = event_count
                ELSE LET first == CHOOSE k \in emitting : \A j \in emitting : k <= j
                         e == results[first][1]
                     IN /\ last_call'.event # << >>
                        /\ Unannotated(last_call'.event[1]) = e
                        /\ event_count' = event_count + 1
                        /\ fired_levels' = Append(fired_levels, e.level)
                        /\ \A i \in 1..Len(last_call'.invoked) :
                              Unannotated(last_call'.invoked[i].event) = e
                        /\ \A i \in (Len(entries) + 1)..Len(entries') :
                              RecordPayload(entries'[i]) = GuardPayload(e)]_vars

C12_Witness ==
    /\ last_call.call = "check"
    /\ config.rules = BothFire
    /\ Rule_check(config.rules[2], CheckOperation, CheckInputs, last_call.output[1]) # << >>
    /\ last_call.event # << >>
    /\ last_call.event[1].level = WARNING
    /\ last_call.raised = "none"
    /\ event_count = 1
    /\ Len(entries) = 1
    /\ Len(last_call.invoked) = 1

\* C13: when auto_log is on and a ledger is attached, every fired event (from
\* check or escalate) increments the ledger length by exactly one, for every
\* configuration of rules and handlers, and a check that fires no event leaves
\* the ledger length unchanged.
C13_EveryEventLoggedOnce ==
    [][(FiringStep /\ LoggingOn) =>
          Len(entries') = Len(entries) + (IF last_call'.event # << >> THEN 1 ELSE 0)]_vars

\* C14: the record auto-logged for an event fired by check has operation
\* guard_<op>, inputs and output equal to the arguments of the check call,
\* invariant_passed = (level != CRITICAL), and the event's op_id is the
\* record's op_id, for events of every rule variant.
C14_AutoLoggedRecord ==
    (last_call.call = "check" /\ last_call.logged # << >>) =>
        LET e == last_call.event[1]
            rec == entries[CHOOSE i \in 1..Len(entries) :
                              entries[i].op_id = last_call.logged[1]]
        IN /\ rec.operation = "guard_" \o CheckOperation
           /\ rec.inputs = CheckInputs
           /\ rec.output = PairRepr(last_call.output[1])
           /\ rec.invariant_passed = (e.level # CRITICAL)
           /\ e.op_id = rec.op_id

\* C15: an exception raised by a handler while an event is dispatched, from
\* its should_handle or from its handle, does not leave check or escalate and
\* does not keep any later handler from receiving the event.
C15_HandlerExceptionsCaught ==
    (last_call.event # << >> /\ last_call.raised # "ledger") =>
        /\ last_call.raised # "should_handle"
        /\ AcceptingHandlersInvoked(config.handlers, last_call.event[1], last_call.invoked)

\* C16: the halt error leaves check or escalate only when halt_on_critical is
\* set and the event is CRITICAL, and then only after full dispatch: the
\* counters are incremented, the event is auto-logged (when auto_log is on and
\* a ledger is attached) and every accepting handler has been invoked; a
\* CRITICAL event whose dispatch completes under halt_on_critical does raise it.
C16_HaltAfterFullDispatch ==
    [][(FiringStep /\ last_call'.event # << >>) =>
          LET e == last_call'.event[1]
          IN /\ last_call'.raised = "halt" =>
                   /\ config.halt_on_critical /\ e.level = CRITICAL
                   /\ event_count' = event_count + 1
                   /\ violation_count' = violation_count + 1
                   /\ LoggingOn =>
                         /\ last_call'.logged # << >>
                         /\ last_call'.logged[1] \in StoredIds(entries')
                         /\ last_call'.logged[1] \notin StoredIds(entries)
                   /\ AcceptingHandlersInvoked(config.handlers, e, last_call'.invoked)
             /\ (config.halt_on_critical /\ e.level = CRITICAL /\
                 last_call'.raised \notin {"should_handle", "ledger"}) =>
                    last_call'.raised = "halt"]_vars

C16_Witness ==
    /\ last_call.call = "check"
    /\ last_call.raised = "halt"
    /\ config.halt_on_critical
    /\ LoggingOn
    /\ config.handlers = <<HaltHandler, LogHandler>>
    /\ Len(last_call.invoked) = 2
    /\ Len(entries) = 1
    /\ event_count = 1 /\ violation_count = 1

\* C17: after any sequence of check, escalate and reset calls, total_events is
\* the number of events fired or escalated since the last reset and violations
\* is the number of those whose level is ERROR or CRITICAL, so violations never
\* exceeds total_events and INFO and WARNING events never increment it.
C17_CountersMatchEvents ==
    /\ event_count = Len(fired_levels)
    /\ violation_count =
          Cardinality({i \in 1..Len(fired_levels) : fired_levels[i] \in {ERROR, CRITICAL}})
    /\ violation_count <= event_count

C17_Witness ==
    /\ event_count = 1
    /\ violation_count = 0
    /\ calls = 2
    /\ config.handlers = << >>
    /\ Len(entries) = 2
    /\ fired_levels = <<WARNING>>

C20_InvariantRuleFiresIff ==
    (rule_call.output # << >> /\ rule_call.rule = InvariantRule) =>
        LET n == rule_call.output[1].n
            u == rule_call.output[1].u
            violated == \/ u.k = "ninf" \/ (u.k = "fin" /\ u.v < 0)
                        \/ n.k = "nan" \/ u.k = "nan"
                        \/ n.k \in {"inf", "ninf"}
        IN /\ (rule_call.result # << >>) <=> violated
           /\ rule_call.result # << >> => rule_call.result[1].level = CRITICAL
           /\ (n.k = "fin" /\ u.k = "inf") => rule_call.result = << >>

C20_Witness ==
    /\ rule_call.rule = InvariantRule
    /\ rule_call.output = <<Pair(Fin(0), PosInf)>>
    /\ rule_call.result = << >>

(***************************************************************************)
(* Properties of the policy compiler (SpecPolicy).                         *)
(***************************************************************************)

RecognisedTypes == {"CoverageRule", "InvariantRule", "ThresholdRule", "CompositeRule"}

ChildResults ==
    [k \in 1..Len(rule_call.rule.rules) |->
        Rule_check(rule_call.rule.rules[k], CheckOperation, CheckInputs,
                   rule_call.output[1])]

AndComposite ==
    /\ rule_call.output # << >>
    /\ rule_call.rule.type = "CompositeRule"
    /\ rule_call.rule.mode = "and"
    /\ Len(rule_call.rule.rules) > 0

\* C21: a CompositeRule in 'and' mode over a non-empty child list returns an
\* event if and only if every child produced an event; the event's level is the
\* maximum of the children's levels under INFO < WARNING < ERROR < CRITICAL and
\* its data carries the list of child events, in order.
C21_AndCompositeFoldsChildren ==
    AndComposite =>
        /\ (rule_call.result # << >>) <=>
               (\A k \in 1..Len(ChildResults) : ChildResults[k] # << >>)
        /\ rule_call.result # << >> =>
               /\ \E k \in 1..Len(ChildResults) :
                     rule_call.result[1].level = ChildResults[k][1].level
               /\ \A k \in 1..Len(ChildResults) :
                     LevelIndex(ChildResults[k][1].level) <=
                         LevelIndex(rule_call.result[1].level)
               /\ rule_call.result[1].data.violations =
                     [k \in 1..Len(ChildResults) |-> ChildResults[k][1]]
               /\ rule_call.result[1].operation = CheckOperation

C21_Witness ==
    /\ AndComposite
    /\ rule_call.rule.rules = BothFire
    /\ rule_call.result # << >>
    /\ rule_call.result[1].level = ERROR
    /\ Len(rule_call.result[1].data.violations) = 2

\* the child specifications of a CompositeRule specification ([] when absent)
ChildSpecs(rule) == IF rule.rules = << >> THEN << >> ELSE rule.rules[1]

\* a compile that returned, of a policy whose rules are all of recognised type:
\* compiled rule number k then comes from rule specification number k
CompiledRuleByRule ==
    /\ policy_call.result.raised = "none"
    /\ Len(policy_call.policy.rules) > 0
    /\ \A k \in 1..Len(policy_call.policy.rules) :
          policy_call.policy.rules[k].type \in RecognisedTypes

\* C22: for every CompositeRule of a policy, the compiled CompositeRule has
\* exactly one compiled child per child specification, in order, for children
\* of every recognised type (CoverageRule, ThresholdRule, InvariantRule and
\* nested CompositeRule).
C22_CompositeChildrenAllCompiled ==
    CompiledRuleByRule =>
        /\ Len(policy_call.result.config[1].rules) = Len(policy_call.policy.rules)
        /\ \A k \in 1..Len(policy_call.policy.rules) :
              LET spec == policy_call.policy.rules[k]
                  rule == policy_call.result.config[1].rules[k]
              IN (/\ spec.type = "CompositeRule"
                  /\ \A j \in 1..Len(ChildSpecs(spec)) :
                        ChildSpecs(spec)[j].type \in RecognisedTypes) =>
                     /\ rule.type = "CompositeRule"
                     /\ Len(rule.rules) = Len(ChildSpecs(spec))
                     /\ \A j \in 1..Len(rule.rules) :
                           rule.rules[j].type = ChildSpecs(spec)[j].type

\* the policy compiled with validation holds a CompositeRule with no children
ValidatedEmptyComposite ==
    /\ policy_call.validate
    /\ policy_call.result # NotCalled
    /\ \E k \in 1..Len(policy_call.policy.rules) :
          /\ policy_call.policy.rules[k].type = "CompositeRule"
          /\ ChildSpecs(policy_call.policy.rules[k]) = << >>

\* C23: the validator reports an error (validate_and_raise raises) for every
\* policy document containing a CompositeRule whose child list is empty.
C23_EmptyCompositeRejected ==
    ValidatedEmptyComposite => policy_call.result.raised = "PolicyValidationError"

(***************************************************************************)
(* Properties of Policy objects and the PolicyManager (SpecManager).       *)
(***************************************************************************)

\* the operations that hand a Policy object to their caller
PolicyOperations ==
    {"Policy", "load_from_string", "load_policy", "create_policy", "sign_policy"}

\* C24: for every Policy object obtained by direct construction, from_dict /
\* load_from_string / load_from_file, create_policy or sign_policy, policy_hash
\* equals the SHA-256 of the canonical serialization of the policy's config.
C24_HashDerivedFromConfig ==
    (manager_call.op \in PolicyOperations /\ manager_call.returned # << >>) =>
        policies[manager_call.returned[1]].policy_hash =
            <<Policy_compute_hash(policies[manager_call.returned[1]].config)>>

\* a step that is one call on a policy, the loader or the manager
ManagerStep == manager_calls' = manager_calls + 1

\* C25: the PolicyManager records a history of loads in order: a successful
\* load_policy appends the policy it returns to the history and makes it the
\* current policy; create_policy, save_policy and every other operation leave
\* the history unchanged; a load that fails (missing file, or signature
\* required but not valid) changes neither the history nor current_policy.
C25_HistoryIsLoadsInOrder ==
    [][ManagerStep =>
          IF manager_call'.op = "load_policy"
          THEN IF manager_call'.raised = "none"
               THEN /\ manager_call'.returned = <<Len(policies) + 1>>
                    /\ policy_history' = Append(policy_history, manager_call'.returned[1])
                    /\ current_policy' = manager_call'.returned
               ELSE /\ policy_history' = policy_history
                    /\ current_policy' = current_policy
          ELSE policy_history' = policy_history]_vars

C25_Witness ==
    /\ Len(policy_history) = 2
    /\ policy_history[1] # policy_history[2]
    /\ manager_call.op = "load_policy"
    /\ manager_call.raised \in {"FileNotFoundError", "ValueError"}

\* the step has on the counters, the handlers, the ledger and the halt error
\* the effect of the pipeline of check run on the event e
PipelineEffect(e) ==
    LET d == Monitor_handle_event(config, ledger_attached, TheLedger, e)
    IN /\ event_count' = event_count + 1
       /\ violation_count' = violation_count + (IF e.level \in {ERROR, CRITICAL} THEN 1 ELSE 0)
       /\ last_call'.invoked = d.invoked
       /\ last_call'.raised = d.raised
       /\ last_call'.logged = d.logged
       /\ last_call'.event = <<d.event>>
       /\ entries' = d.ledger.entries
       /\ leaves' = d.ledger.leaves
       /\ timestamp_counter' = d.ledger.timestamp_counter

\* C26: escalate(e) runs the same dispatch/log/halt pipeline as check without
\* running rules: a call escalate(e) and a check call whose first emitting
\* rule produced e have, from the same monitor state, the same effect on
\* total_events, violations, the handlers invoked, the ledger and the halt error.
C26_EscalateSameAsCheck ==
    [][(FiringStep /\ last_call'.event # << >>) =>
          /\ PipelineEffect(Unannotated(last_call'.event[1]))
          /\ last_call'.call = "check" =>
                LET results == RuleResults(config.rules, CheckOperation, CheckInputs,
                                           last_call'.output[1])
                IN Unannotated(last_call'.event[1]) = results[FirstEmitting(results)][1]]_vars

\* the event of CoverageRule fired by check and then escalated by hand
C26_Witness ==
    /\ last_call.call = "escalate"
    /\ last_call.event # << >>
    /\ last_call.event[1].data.coverage = <<Fin(150)>>
    /\ fired_levels = <<WARNING, WARNING>>
    /\ config.rules = BothFire
    /\ event_count = 2
    /\ violation_count = 0
    /\ Len(last_call.invoked) = 1
    /\ last_call.logged # << >>
    /\ Len(entries) = 2
    /\ entries[1].operation = entries[2].operation

(***************************************************************************)
(* nucore: the algebra                                                     *)
(***************************************************************************)
\* the pair a call of the algebra returned
CoreResult == core_call.result.value[1]

CoreReturned(op) == core_call.op = op /\ core_call.result.raised = "none"

\* the corners of the input box [n1 - u1, n1 + u1] x [n2 - u2, n2 + u2], in thousandths
BoxCorners ==
    {<<x, y>> : x \in {core_call.n1.v - core_call.u1.v, core_call.n1.v + core_call.u1.v},
                y \in {core_call.n2.v - core_call.u2.v, core_call.n2.v + core_call.u2.v}}

\* C27: for u1 >= 0, u2 >= 0 and lambda >= 1 the interval
\* [n_out - u_out, n_out + u_out] that add (multiply) returns contains x + y
\* (x * y) for every x of [n1 - u1, n1 + u1] and y of [n2 - u2, n2 + u2]; here
\* for the corners of that box.
C27_EnclosurePreserved ==
    /\ CoreReturned("add") =>
          \A c \in BoxCorners :
              /\ CoreResult.n.v - CoreResult.u.v <= c[1] + c[2]
              /\ c[1] + c[2] <= CoreResult.n.v + CoreResult.u.v
    /\ CoreReturned("multiply") =>
          \A c \in BoxCorners :
              /\ (CoreResult.n.v - CoreResult.u.v) * 1000 <= c[1] * c[2]
              /\ c[1] * c[2] <= (CoreResult.n.v + CoreResult.u.v) * 1000

ComposedEqualPairs ==
    /\ CoreReturned("compose")
    /\ core_call.n1 = core_call.n2
    /\ core_call.u1 = core_call.u2

C30_CachedRootCoherent ==
    [][/\ root_cache # NoHash => root_cache = ComputeRoot(leaves)
       /\ root_cache' # NoHash => root_cache' = ComputeRoot(leaves')
       /\ RootOf(root_cache', leaves') = ComputeRoot(leaves')
       /\ Len(leaves') >= Len(leaves)
       /\ SubSeq(leaves', 1, Len(leaves)) = leaves]_vars

\* root was called, a third leaf appended and root called again: the cache
\* holds the root of the three leaves
C30_Witness ==
    /\ leaves = <<<<"leaf1">>, <<"leaf2">>, <<"leaf1">>>>
    /\ root_cache # NoHash
    /\ root_cache = ComputeRoot(leaves)
    /\ root_cache # ComputeRoot(SubSeq(leaves, 1, 2))

(***************************************************************************)
(* Ledger.append and get_root under concurrent callers (SpecConc)          *)
(***************************************************************************)
\* every call has returned
AllReturned == \A t \in Threads : pc[t] = "idle"

\* C31: once all concurrent append and root calls on one ledger have returned,
\* the Merkle leaves are the hashes of the backend's records in the backend's
\* order, and root() returns the root over all committed records.
C31_QuiescentRootCommitted ==
    AllReturned =>
        /\ leaves = EntryHashes(get_all(backend_kind, entries))
        /\ RootOf(root_cache, leaves) =
               ComputeRoot(EntryHashes(get_all(backend_kind, entries)))

(***************************************************************************)
(* Parent links of a ledger built by appends (Spec)                        *)
(***************************************************************************)
\* the op_ids a caller can name: every op_id append can issue, and one it cannot
KnownIds == {Uuid4(k) : k \in 1..MaxAppends} \cup {"never-issued"}

\* C32: in a ledger built by appends whose parent_id is absent, the op_id of a
\* record appended before, or a value never issued, every record whose parent
\* is stored has a parent appended earlier, and the walk of trace(x) ends
\* before it has visited more records than are stored, for every op_id x.
C32_ParentLinksFormForest ==
    ~tampered =>
        /\ \A i \in 1..Len(entries) :
              entries[i].parent_id \in StoredIds(entries) =>
                  \E j \in 1..(i - 1) : entries[j].op_id = entries[i].parent_id
        /\ \A x \in KnownIds :
              Len(TraceWalk(x, << >>, Len(entries) + 1)) <= Len(entries)

\* two records name the first record as their parent
C32_Witness ==
    /\ ~tampered
    /\ Len(entries) = 3
    /\ entries[1].parent_id = None
    /\ entries[2].parent_id = entries[1].op_id
    /\ entries[3].parent_id = entries[1].op_id
    /\ Len(trace(entries[3].op_id)) = 2

(***************************************************************************)
(* The event as the handlers receive it (SpecMonitor)                      *)
(***************************************************************************)
\* C33: when auto_log is on and a ledger is attached, the guard record is
\* appended before any handler is invoked, and every handler receives the event
\* with op_id set to the op_id of that record.
C33_HandlersReceiveLoggedOpId ==
    (LoggingOn /\ last_call.event # << >>) =>
        \A k \in 1..Len(last_call.invoked) :
            /\ last_call.logged # << >>
            /\ last_call.invoked[k].event.op_id = last_call.logged[1]

\* C34: with a HaltHandler among the handlers, a check or escalate whose event
\* is CRITICAL raises instead of returning normally, and for an event below
\* CRITICAL the HaltHandler is not invoked.
C34_HaltHandlerHalts ==
    (last_call.event # << >> /\ \E k \in 1..Len(config.handlers) :
                                   config.handlers[k] = HaltHandler) =>
        IF last_call.event[1].level = CRITICAL
        THEN last_call.raised # "none"
        ELSE \A i \in 1..Len(last_call.invoked) :
                 config.handlers[last_call.invoked[i].handler] # HaltHandler

(***************************************************************************)
(* The monitor created from a policy (SpecPolicy)                          *)
(***************************************************************************)
\* C35: the monitor created from a policy whose rule list is empty returns no
\* event from check, for any output.
C35_EmptyPolicyDetectsNothing ==
    (policy_call.policy.rules = << >> /\ last_call.call = "check") =>
        last_call.event = << >>


\* C36: a policy document whose config was altered after signing, with
\* signature, public_key and policy_hash left as signed, fails
\* verify_signature, and loading it with require_signature=True raises
\* instead of returning a policy.
C36_AlteredConfigFailsVerification ==
    [][\A data \in AlteredSignedDocuments :
          PolicyLoader_load_from_string(data, TRUE) =>
             /\ Policy_verify_signature(Policy_from_dict(data)[1], crypto_available)
                   # "True"
             /\ manager_call'.raised # "none"
             /\ manager_call'.returned = << >>]_vars

\* C37: every policy document that the validator accepts (no errors) compiles
\* to a MonitorConfig without raising, and check on the monitor created from
\* it never raises an error other than the configured critical halt.
C37_ValidatedPolicyCompilesAndChecks ==
    PolicyValidator_validate(policy_call.policy) = << >> =>
        /\ policy_call.result # NotCalled => policy_call.result.raised = "none"
        /\ last_call.call = "check" => last_call.raised \in {"none", "halt"}

(***************************************************************************)
(* Alterations of the stored sequence (SpecAlter)                          *)
(***************************************************************************)
\* a step that removes a record, inserts a copy of one, or reorders the records
AlterStep == ~tampered /\ tampered' /\ get_all(backend_kind, entries') # get_all(backend_kind, entries)

\* C38: after a non-empty sequence of appends on a ledger instance, removing
\* a stored record, inserting a duplicate of a stored record, or permuting
\* the records makes verify_integrity() on that instance return false, also
\* where the Merkle root is unchanged by duplicating the last leaf.
C38_SequenceAlterationFailsVerify ==
    [][(AlterStep /\ returned # << >>) =>
          ~VerifyIntegrity(backend_kind, entries', root_cache', leaves')]_vars

\* the last of three records was duplicated: the recomputed root equals the
\* root of the tree, and verify_integrity is false
C38_Witness ==
    /\ tampered
    /\ Len(returned) = 3
    /\ constructs = 1
    /\ ~append_failed
    /\ Len(entries) = 4
    /\ entries[4] = entries[3]
    /\ RecomputedRoot(backend_kind, entries) = RootOf(root_cache, leaves)
    /\ ~verify_integrity

(***************************************************************************)
(* A ledger constructed over a backend already tampered with (Spec)        *)
(***************************************************************************)
\* a step that constructs a Ledger over the backend as it stands
ConstructStep == constructs' = constructs + 1

\* C39: if a stored record was altered before a Ledger is constructed over
\* the backend, verify_integrity() on the instance constructed is false.
C39_TamperEvidentAfterRestart ==
    [][(tampered /\ ConstructStep) =>
          ~VerifyIntegrity(backend_kind, entries', root_cache', leaves')]_vars

(***************************************************************************)
(* Calls in which no rule emits (SpecMonitor)                              *)
(***************************************************************************)
\* a step that is a call of check or of monitor
CheckOrMonitorStep == calls' = calls + 1 /\ last_call'.call \in {"check", "monitor"}

\* no rule of the list emits for the output of the call made
NoRuleEmits ==
    \A k \in 1..Len(config.rules) :
        Rule_check(config.rules[k], CheckOperation, CheckInputs, last_call'.output[1])
           = << >>

\* C40: a check call in which no rule emits returns no event and changes
\* nothing: total_events, violations, the ledger (length and root), the rule
\* list and the handler list are unchanged and no handler is invoked;
\* monitor() returns true exactly in this case.
C40_QuietCheckChangesNothing ==
    [][CheckOrMonitorStep =>
          /\ NoRuleEmits =>
                /\ last_call'.event = << >>
                /\ last_call'.raised = "none"
                /\ last_call'.invoked = << >>
                /\ last_call'.logged = << >>
                /\ event_count' = event_count
                /\ violation_count' = violation_count
                /\ entries' = entries
                /\ leaves' = leaves
                /\ RootOf(root_cache', leaves') = RootOf(root_cache, leaves)
                /\ config' = config
          /\ last_call'.call = "monitor" =>
                (last_call'.result = <<TRUE>> <=> NoRuleEmits)]_vars

\* monitor() has returned true with rules and handlers configured and a
\* record in the ledger, after an earlier call that emitted
C40_Witness ==
    /\ last_call.call = "monitor"
    /\ last_call.result = <<TRUE>>
    /\ Len(config.rules) >= 2
    /\ config.handlers # << >>
    /\ event_count = 1
    /\ Len(entries) = 1

====
